---- MODULE Spec2Model ----
(***************************************************************************)
(* A model of the protox runtime: the wire primitives of                   *)
(* protox/encoding.py, the field types of protox/fields.py and the message *)
(* runtime of protox/message.py.                                           *)
(*                                                                         *)
(* Python integers are unbounded, and the codec works on values up to      *)
(* 2^64 and beyond, so an integer is modelled as an infinite two's         *)
(* complement number: its low bits (least significant first) and the sign  *)
(* that extends them.  Bytes are the numbers 0..255, a byte string is a    *)
(* sequence of them, and a stream is a byte string with a read position.   *)
(***************************************************************************)
EXTENDS Integers, Sequences, FiniteSets, TLC

VARIABLES
    msg,      \* the message instance at hand: type, _data, _which_one_of
    writes,   \* the number of attribute writes made on msg
    lastop,   \* the last operation on msg and its outcome
    wire,     \* the outcome of the last to_stream on msg
    res,      \* the outcome of the last from_bytes
    cin,      \* the argument of a wire primitive
    cout      \* what the wire primitive made of it

vars == <<msg, writes, lastop, wire, res, cin, cout>>

\* name = value, and what follows it: an assignment to a local variable.
\* The comparison has the value computed before what follows it goes on.
With(value, Rest(_)) == IF value = value THEN Rest(value) ELSE value

(***************************************************************************)
(* Python integers.                                                        *)
(***************************************************************************)
Max(a, b) == IF a >= b THEN a ELSE b

MkInt(neg, bits) == [k |-> "int", neg |-> neg, bits |-> bits]

SignBit(v) == IF v.neg THEN 1 ELSE 0

\* bits without the high bits that repeat the sign s, eight of them at a time
\* where there are as many
RECURSIVE Trim(_, _)
Trim(bits, s) ==
    IF Len(bits) >= 8 /\ \A i \in (Len(bits) - 7)..Len(bits) : bits[i] = s
    THEN Trim(SubSeq(bits, 1, Len(bits) - 8), s)
    ELSE IF bits # <<>> /\ bits[Len(bits)] = s
    THEN Trim(SubSeq(bits, 1, Len(bits) - 1), s)
    ELSE bits

\* the one representation of a number: no high bit repeats the sign
Norm(v) == MkInt(v.neg, Trim(v.bits, SignBit(v)))

BitAt(v, i) == IF i <= Len(v.bits) THEN v.bits[i] ELSE SignBit(v)

\* the n low bits of v
Ext(v, n) == SubSeq([i \in 1..n |-> BitAt(v, i)], 1, n)

\* n bits b
Bits(b, n) == SubSeq([i \in 1..n |-> b], 1, n)

RECURSIVE NatBits(_)
NatBits(n) == IF n = 0 THEN <<>> ELSE <<n % 2>> \o NatBits(n \div 2)

RECURSIVE BitsVal(_)
BitsVal(bits) == IF bits = <<>> THEN 0 ELSE Head(bits) + 2 * BitsVal(Tail(bits))

\* the n low bits of the small number v
LowBits(v, n) == SubSeq([i \in 1..n |-> (v \div 2 ^ (i - 1)) % 2], 1, n)

\* x + y + c, the carry out dropped; eight bits at a time are added as a
\* small number
RECURSIVE AddBits(_, _, _)
AddBits(x, y, c) ==
    IF x = <<>> THEN <<>>
    ELSE IF Len(x) <= 8 THEN LowBits(BitsVal(x) + BitsVal(y) + c, Len(x))
    ELSE LowBits(BitsVal(SubSeq(x, 1, 8)) + BitsVal(SubSeq(y, 1, 8)) + c, 8)
         \o AddBits(SubSeq(x, 9, Len(x)), SubSeq(y, 9, Len(y)),
                    (BitsVal(SubSeq(x, 1, 8)) + BitsVal(SubSeq(y, 1, 8)) + c)
                        \div 256)

\* the number of the two's complement bits r, the last of them the sign
Signed(r) == Norm(MkInt(r[Len(r)] = 1, SubSeq(r, 1, Len(r) - 1)))

\* a + b + c, for a carry c of 0 or 1
AddCarry(a, b, c) ==
    Signed(AddBits(Ext(a, Max(Len(a.bits), Len(b.bits)) + 2),
                   Ext(b, Max(Len(a.bits), Len(b.bits)) + 2), c))

\* a + b
Add(a, b) == AddCarry(a, b, 0)

\* ~a
Inv(a) == MkInt(~a.neg, SubSeq([i \in 1..Len(a.bits) |-> 1 - a.bits[i]], 1, Len(a.bits)))

One == MkInt(FALSE, <<1>>)

Zero == MkInt(FALSE, <<>>)

\* -a
Neg(a) == AddCarry(Inv(a), Zero, 1)

\* a - b
Sub(a, b) == AddCarry(a, Inv(b), 1)

\* the Python integer of a small number of the model
I(n) == IF n >= 0 THEN MkInt(FALSE, NatBits(n)) ELSE Neg(MkInt(FALSE, NatBits(-n)))

\* the small number of a Python integer that is known to be small and >= 0
ToNat(v) == BitsVal(v.bits)

\* 2 ** n
Pow2(n) == MkInt(FALSE, Bits(0, n) \o <<1>>)

\* a < b, a <= b
Lt(a, b) == Sub(a, b).neg

Le(a, b) == ~Lt(b, a)

\* a << n
Shl(a, n) == Norm(MkInt(a.neg, Bits(0, n) \o a.bits))

\* a >> n (arithmetic: the sign extends)
Shr(a, n) ==
    MkInt(a.neg, IF n >= Len(a.bits) THEN <<>> ELSE SubSeq(a.bits, n + 1, Len(a.bits)))

\* a ^ b
Xor(a, b) ==
    Norm(MkInt(a.neg # b.neg,
               SubSeq([i \in 1..Max(Len(a.bits), Len(b.bits)) |->
                          (BitAt(a, i) + BitAt(b, i)) % 2],
                      1, Max(Len(a.bits), Len(b.bits)))))

\* a & b
And(a, b) ==
    Norm(MkInt(a.neg /\ b.neg,
               SubSeq([i \in 1..Max(Len(a.bits), Len(b.bits)) |-> BitAt(a, i) * BitAt(b, i)],
                      1, Max(Len(a.bits), Len(b.bits)))))

\* a | b
Or(a, b) ==
    Norm(MkInt(a.neg \/ b.neg,
               SubSeq([i \in 1..Max(Len(a.bits), Len(b.bits)) |->
                          BitAt(a, i) + BitAt(b, i) - BitAt(a, i) * BitAt(b, i)],
                      1, Max(Len(a.bits), Len(b.bits)))))

\* -2 ** 31, 2 ** 31 - 1, -2 ** 63, 2 ** 63 - 1, 2 ** 32 - 1, 2 ** 64 - 1
MIN_INT32 == MkInt(TRUE, Bits(0, 31))

MAX_INT32 == MkInt(FALSE, Bits(1, 31))

MIN_INT64 == MkInt(TRUE, Bits(0, 63))

MAX_INT64 == MkInt(FALSE, Bits(1, 63))

MAX_UINT32 == MkInt(FALSE, Bits(1, 32))

MAX_UINT64 == MkInt(FALSE, Bits(1, 64))

(***************************************************************************)
(* Streams.  A read returns a result: err is "" or the name of the         *)
(* exception raised, val the value read, pos the stream position after it. *)
(***************************************************************************)
Ok(val, pos) == [err |-> "", val |-> val, pos |-> pos]

Raise(err, pos) == [err |-> err, val |-> Zero, pos |-> pos]

\* stream.read(n) at position pos: the bytes read (fewer than n at the end)
Read(buf, pos, n) == SubSeq(buf, pos, IF pos + n - 1 <= Len(buf) THEN pos + n - 1 ELSE Len(buf))

(***************************************************************************)
(* protox/encoding.py                                                      *)
(***************************************************************************)
\* range(10) of decode_varint
VarintMaxBytes == 10

\* value & 0x7F
Low7(value) == BitsVal(Ext(value, 7))

\* encode_varint with the shift of a byte, not of seven bits
RECURSIVE encode_varint_rest_shift8(_, _)
encode_varint_rest_shift8(x, value) ==
    IF value # Zero
    THEN <<x + 128>> \o encode_varint_rest_shift8(Low7(value), Shr(value, 8))
    ELSE <<x>>

RECURSIVE encode_varint_rest(_, _)
encode_varint_rest(x, value) ==
    IF value # Zero
    THEN <<x + 128>> \o encode_varint_rest(Low7(value), Shr(value, 7))
    ELSE <<x>>

encode_varint(value) == encode_varint_rest(Low7(value), Shr(value, 7))

RECURSIVE decode_varint_loop(_, _, _, _, _)
decode_varint_loop(buf, pos, rv, shift, n) ==
    IF n = VarintMaxBytes THEN Raise("MessageDecodeError", pos)
    ELSE IF pos > Len(buf) THEN Raise("MessageDecodeError", pos)
    ELSE With(Or(rv, Shl(I(buf[pos] % 128), shift)),
              LAMBDA rv_x :
                  IF buf[pos] < 128 THEN Ok(rv_x, pos + 1)
                  ELSE decode_varint_loop(buf, pos + 1, rv_x, shift + 7, n + 1))

decode_varint(buf, pos) == decode_varint_loop(buf, pos, Zero, 0, 0)

encode_zig_zag32(x) == Xor(Shl(x, 1), Shr(x, 31))

encode_zig_zag64(x) == Xor(Shl(x, 1), Shr(x, 63))

\* decode_zig_zag without the negation of the sign bit
decode_zig_zag_unsigned(x) == Xor(Shr(x, 1), And(x, One))

decode_zig_zag(x) == Xor(Shr(x, 1), Neg(And(x, One)))

(***************************************************************************)
(* Python values.  Every value carries its kind: None, int (above), bool,  *)
(* str (its code points), bytes, list, dict (its items in insertion        *)
(* order) and a message instance (its type, _data and _which_one_of).      *)
(***************************************************************************)
None == [k |-> "none"]

PyBool(b) == [k |-> "bool", v |-> b]

PyStr(cps) == [k |-> "str", cp |-> cps]

PyBytes(b) == [k |-> "bytes", b |-> b]

PyList(items) == [k |-> "list", items |-> items]

PyDict(pairs) == [k |-> "dict", pairs |-> pairs]

PyMsg(type, data, which) == [k |-> "msg", type |-> type, data |-> data, which |-> which]

\* an empty dict of Python, as _data and _which_one_of start
Empty == [n \in {} |-> None]

\* d[key] = value on a mapping from names
Put(d, key, value) == (key :> value) @@ d

\* d.pop(name, None) for every name of names
PopAll(d, names) == [n \in DOMAIN d \ names |-> d[n]] @@ Empty

\* the index of key among the items of a dict, or 0
RECURSIVE PairIndex(_, _, _)
PairIndex(pairs, key, i) ==
    IF i > Len(pairs) THEN 0
    ELSE IF pairs[i][1] = key THEN i
    ELSE PairIndex(pairs, key, i + 1)

\* d[key] = value on a dict: a new key goes last, a known key keeps its place
DictSet(pairs, key, value) ==
    LET i == PairIndex(pairs, key, 1)
    IN  IF i = 0 THEN Append(pairs, <<key, value>>)
        ELSE [pairs EXCEPT ![i] = <<key, value>>]

(***************************************************************************)
(* Field descriptors (protox/fields.py).  A descriptor is a record: the    *)
(* attribute name, the number, the kind (the class of the field), required *)
(* and default, and for a Repeated its element kind and packed flag, for a *)
(* MapField its key and value kinds, for an EnumField, a MessageField or   *)
(* an element or value of that kind the enum or message type it is of.     *)
(***************************************************************************)
Fld(name, number, kind, required, default) ==
    [name |-> name, number |-> number, kind |-> kind, required |-> required,
     default |-> default, elem |-> "", packed |-> FALSE, key |-> "", of |-> ""]

\* EnumField(of, ...) and MessageField(of, ...)
FldOf(name, number, kind, of, required, default) ==
    [Fld(name, number, kind, required, default) EXCEPT !.of = of]

\* Repeated(elem, number=number, packed=packed): Field.__init__ leaves it optional
Rep(name, number, elem, of, packed) ==
    [Fld(name, number, "Repeated", FALSE, None) EXCEPT !.elem = elem, !.of = of, !.packed = packed]

\* MapField(key, value, number=number)
MapFld(name, number, key, elem, of) ==
    [Fld(name, number, "Map", FALSE, None) EXCEPT !.key = key, !.elem = elem, !.of = of]

\* Repeated._field: of_type(number=number), an EnumField or a MessageField
ElemField(f) == FldOf(f.name, f.number, f.elem, f.of, FALSE, None)

\* MapField._key_field and MapField._value_field
KeyField(f) == Fld("key", 1, f.key, TRUE, None)

ValueField(f) == FldOf("value", 2, f.elem, f.of, TRUE, None)

VarintKinds == {"Int32", "Int64", "UInt32", "UInt64", "SInt32", "SInt64", "Bool", "Enum"}

IntKinds ==
    {"Int32", "Int64", "UInt32", "UInt64", "SInt32", "SInt64",
     "Fixed32", "Fixed64", "SFixed32", "SFixed64"}

\* WireType
VARINT == 0

FIXED_64 == 1

LENGTH == 2

FIXED_32 == 5

\* the wire_type attribute of a field class
KindWireType(kind) ==
    IF kind \in VarintKinds THEN VARINT
    ELSE IF kind \in {"Fixed64", "SFixed64"} THEN FIXED_64
    ELSE IF kind \in {"Fixed32", "SFixed32"} THEN FIXED_32
    ELSE LENGTH

\* Repeated takes the wire type of its strategy: LENGTH when packed, the element's otherwise
WireTypeOf(f) ==
    IF f.kind = "Repeated"
    THEN (IF f.packed THEN LENGTH ELSE KindWireType(f.elem))
    ELSE KindWireType(f.kind)

\* Field._header: encode_varint(number << 3 | wire_type)
Header(f) == encode_varint(Or(Shl(I(f.number), 3), I(WireTypeOf(f))))

\* min_value and max_value of the Int classes
MinValue(kind) ==
    IF kind \in {"Int32", "SInt32", "SFixed32"} THEN MIN_INT32
    ELSE IF kind \in {"Int64", "SInt64", "SFixed64"} THEN MIN_INT64
    ELSE Zero

MaxValue(kind) ==
    IF kind \in {"Int32", "SInt32", "SFixed32"} THEN MAX_INT32
    ELSE IF kind \in {"Int64", "SInt64", "SFixed64"} THEN MAX_INT64
    ELSE IF kind \in {"UInt32", "Fixed32"} THEN MAX_UINT32
    ELSE MAX_UINT64

(***************************************************************************)
(* The message types of the model, as their class bodies declare them: the *)
(* fields in definition order and the one_of groups.  They follow the      *)
(* classes of tests/test_messages.py, tests/test_fields.py and             *)
(* tests/test_maps.py, one per shape the runtime tells apart.              *)
(***************************************************************************)
\* class Color(IntEnum): GREEN = 1; RED = 2, and an enum whose variants span
\* the range _validate_py_enum accepts: -2 ** 31, -1, 0, 1 and 2 ** 31 - 1
EnumVariants(of) ==
    IF of = "Color" THEN {I(1), I(2)}
    ELSE IF of = "Level" THEN {MIN_INT32, I(-1), I(0), I(1), MAX_INT32}
    ELSE {}

OneOf(name, fields) == [name |-> name, fields |-> fields]

Types ==
    {"Scalars", "Fixeds", "User", "UserV2", "OneOfMessage", "OneOfDefault",
     "OneOfDefaultV2", "DefaultsV1", "Defaults", "EnumMessage", "EnumTwin", "Packed",
     "Unpacked", "Inner", "Outer"}

OneOfDefaultFields ==
    << Fld("ok", 10, "Int32", FALSE, I(1)),
       Fld("fail", 11, "Int32", FALSE, I(2)),
       Fld("note", 12, "String", FALSE, None) >>

\* cls._field_by_name, in definition order
Fields(type) ==
    CASE type = "Scalars" ->
           << Fld("i32", 1, "Int32", FALSE, None),
              Fld("i64", 2, "Int64", FALSE, None),
              Fld("u32", 3, "UInt32", FALSE, None),
              Fld("u64", 4, "UInt64", FALSE, None),
              Fld("s32", 5, "SInt32", FALSE, None),
              Fld("s64", 6, "SInt64", FALSE, None),
              Fld("b", 7, "Bool", FALSE, None) >>
      [] type = "Fixeds" ->
           << Fld("f32", 1, "Fixed32", FALSE, None),
              Fld("f64", 2, "Fixed64", FALSE, None),
              Fld("sf32", 3, "SFixed32", FALSE, None),
              Fld("sf64", 4, "SFixed64", FALSE, None),
              Fld("s", 5, "String", FALSE, None),
              Fld("by", 6, "Bytes", FALSE, None) >>
      [] type = "User" ->
           << Fld("name", 1, "String", TRUE, None) >>
      [] type = "UserV2" ->
           << Fld("name", 1, "String", TRUE, None),
              Fld("x", 2, "Int32", FALSE, None),
              Fld("tag", 3, "Fixed64", FALSE, None),
              Fld("blob", 4, "Bytes", FALSE, None),
              Fld("crc", 5, "Fixed32", FALSE, None) >>
      [] type = "OneOfMessage" ->
           << Fld("x", 1, "Int32", FALSE, None),
              Fld("y", 2, "Int32", FALSE, None),
              Fld("z", 3, "Int32", FALSE, None),
              Fld("c", 4, "String", FALSE, None),
              Fld("d", 5, "Bool", FALSE, None) >>
      [] type = "OneOfDefault" -> OneOfDefaultFields
      [] type = "OneOfDefaultV2" ->
           OneOfDefaultFields \o << Fld("extra", 13, "Int32", FALSE, None) >>
      [] type = "DefaultsV1" ->
           << Fld("c", 3, "String", TRUE, None) >>
      [] type = "Defaults" ->
           << Fld("c", 3, "String", TRUE, None),
              Fld("a", 1, "Int32", FALSE, I(5)),
              Fld("b", 2, "Int32", TRUE, I(0)),
              Fld("d", 4, "Bool", TRUE, PyBool(FALSE)),
              Fld("s", 6, "String", TRUE, PyStr(<<>>)),
              Fld("e", 5, "Int32", TRUE, I(7)) >>
      [] type = "EnumMessage" ->
           << FldOf("color", 1, "Enum", "Color", TRUE, None),
              Rep("colors", 2, "Enum", "Color", FALSE),
              Rep("packed_colors", 3, "Enum", "Color", TRUE),
              MapFld("by_name", 4, "String", "Enum", "Color") >>
      [] type = "Levels" ->
           << FldOf("level", 1, "Enum", "Level", FALSE, None),
              Rep("levels", 2, "Enum", "Level", FALSE),
              Rep("packed_levels", 3, "Enum", "Level", TRUE) >>
      [] type = "EnumTwin" ->
           << Fld("color", 1, "UInt32", TRUE, None),
              Rep("colors", 2, "UInt32", "", FALSE),
              Rep("packed_colors", 3, "UInt32", "", TRUE),
              MapFld("by_name", 4, "String", "UInt32", "") >>
      [] type = "Packed" ->
           << Rep("xs", 1, "Int32", "", TRUE),
              Rep("fs", 2, "Fixed32", "", TRUE),
              Rep("ss", 3, "String", "", TRUE) >>
      [] type = "Unpacked" ->
           << Rep("xs", 1, "Int32", "", FALSE),
              Rep("fs", 2, "Fixed32", "", FALSE),
              Rep("ss", 3, "String", "", FALSE) >>
      [] type = "Inner" ->
           << Fld("a", 1, "Int32", TRUE, None) >>
      [] type = "Outer" ->
           << Fld("z", 1, "Int32", FALSE, None),
              FldOf("inner", 2, "Message", "Inner", FALSE, None),
              Rep("inners", 3, "Message", "Inner", FALSE) >>
      [] type = "Leaf" ->
           << Fld("a", 1, "Int32", FALSE, None) >>
      [] type = "Wide" ->
           << Fld("big", 16, "Int32", FALSE, None),
              FldOf("leaf", 2, "Message", "Leaf", FALSE, None),
              Fld("f", 3, "Fixed32", FALSE, None),
              Fld("s", 4, "String", FALSE, None),
              Rep("xs", 5, "Int32", "", TRUE),
              MapFld("m", 6, "String", "Int32", "") >>

\* the one_of attributes of the class body
OneOfs(type) ==
    CASE type = "OneOfMessage" ->
           << OneOf("one_of_three", <<"x", "y", "z">>), OneOf("second_one_of", <<"c", "d">>) >>
      [] type \in {"OneOfDefault", "OneOfDefaultV2"} ->
           << OneOf("result", <<"ok", "fail">>) >>
      [] OTHER -> <<>>

\* a message type: its name, its fields and its one_of groups
Class(type) == [name |-> type, fields |-> Fields(type), one_ofs |-> OneOfs(type)]

\* class _DictEntry(Message): key = key_field; value = value_field
DictEntry(f) == [name |-> "_DictEntry", fields |-> <<KeyField(f), ValueField(f)>>, one_ofs |-> <<>>]

Range(seq) == {seq[i] : i \in 1..Len(seq)}

FieldNames(cls) == {cls.fields[i].name : i \in 1..Len(cls.fields)}

\* cls._field_by_name[name]
FieldByName(cls, name) == CHOOSE f \in Range(cls.fields) : f.name = name

\* number in cls._field_by_number
HasNumber(cls, number) == \E f \in Range(cls.fields) : I(f.number) = number

\* cls._field_by_number[number]
FieldByNumber(cls, number) == CHOOSE f \in Range(cls.fields) : I(f.number) = number

\* cls._one_of_by_field_name: name in it, and the group it maps name to
InOneOf(cls, name) == \E g \in Range(cls.one_ofs) : name \in Range(g.fields)

OneOfByFieldName(cls, name) == CHOOSE g \in Range(cls.one_ofs) : name \in Range(g.fields)

\* cls._one_ofs
OneOfNames(cls) == {g.name : g \in Range(cls.one_ofs)}

\* cls._required_fields: required and default is None (_add_field_to_message)
RequiredFields(cls) ==
    {f.name : f \in {g \in Range(cls.fields) : g.required /\ g.default = None}}

(***************************************************************************)
(* validate_value of the field classes: TRUE when no ValueError is raised. *)
(***************************************************************************)
\* Int.validate_value, Bytes, String, Bool, EnumField and MessageField
ValidScalar(f, value) ==
    IF f.kind \in IntKinds
    THEN value.k = "int" /\ ~Lt(value, MinValue(f.kind)) /\ ~Lt(MaxValue(f.kind), value)
    ELSE IF f.kind = "Bytes" THEN value.k = "bytes"
    ELSE IF f.kind = "String" THEN value.k = "str"
    ELSE IF f.kind = "Bool" THEN value.k = "bool"
    ELSE IF f.kind = "Enum" THEN value.k = "int" /\ value \in EnumVariants(f.of)
    ELSE IF f.kind = "Message" THEN value.k = "msg" /\ value.type = f.of
    ELSE FALSE

\* Repeated.validate_value: every value of the list validates against _field;
\* MapField.validate_value: the value is a dict
validate_value(f, value) ==
    IF f.kind = "Map" THEN value.k = "dict"
    ELSE IF f.kind = "Repeated" /\ value.k # "list" THEN FALSE
    ELSE \A v \in (IF f.kind = "Repeated" THEN Range(value.items) ELSE {value}) :
            ValidScalar(IF f.kind = "Repeated" THEN ElemField(f) ELSE f, v)

\* ValidatedDict(map_field, initial_value): self[key] = value validates both
ValidDictItems(f, value) ==
    \A i \in 1..Len(value.pairs) :
        /\ ValidScalar(KeyField(f), value.pairs[i][1])
        /\ ValidScalar(ValueField(f), value.pairs[i][2])

(***************************************************************************)
(* The accessors _add_field_to_message installs (protox/message.py).       *)
(* A message instance is a PyMsg; a write returns the instance after it    *)
(* and err, the exception raised ("" for none).                            *)
(***************************************************************************)
Wrote(m) == [err |-> "", m |-> m]

Failed(err, m) == [err |-> err, m |-> m]

\* the setter without the one-of bookkeeping: a mutant
OneOfSetterKeepsOthers(cls, m, name, value) ==
    IF ~validate_value(FieldByName(cls, name), value) THEN Failed("ValueError", m)
    ELSE Wrote([m EXCEPT !.data = Put(m.data, name, value),
                         !.which = Put(m.which, OneOfByFieldName(cls, name).name, name)])

\* the setter that clears the group before it validates the value: a mutant
OneOfSetterClearsFirst(cls, m, name, value) ==
    IF ~validate_value(FieldByName(cls, name), value)
    THEN Failed("ValueError",
                [m EXCEPT !.data = PopAll(m.data, Range(OneOfByFieldName(cls, name).fields))])
    ELSE Wrote([m EXCEPT !.data = Put(PopAll(m.data, Range(OneOfByFieldName(cls, name).fields)),
                                      name, value),
                         !.which = Put(m.which, OneOfByFieldName(cls, name).name, name)])

\* OneOfSetter.__call__
OneOfSetter(cls, m, name, value) ==
    IF ~validate_value(FieldByName(cls, name), value) THEN Failed("ValueError", m)
    ELSE Wrote([m EXCEPT !.data = Put(PopAll(m.data, Range(OneOfByFieldName(cls, name).fields)),
                                      name, value),
                         !.which = Put(m.which, OneOfByFieldName(cls, name).name, name)])

\* MapSetter.__call__
MapSetter(cls, m, name, value) ==
    IF ~validate_value(FieldByName(cls, name), value) THEN Failed("ValueError", m)
    ELSE IF ~ValidDictItems(FieldByName(cls, name), value) THEN Failed("ValueError", m)
    ELSE Wrote([m EXCEPT !.data = Put(m.data, name, value)])

\* FieldSetter.__call__ and RepeatedSetter.__call__
FieldSetter(cls, m, name, value) ==
    IF ~validate_value(FieldByName(cls, name), value) THEN Failed("ValueError", m)
    ELSE Wrote([m EXCEPT !.data = Put(m.data, name, value)])

\* setattr(m, name, value): the setter chosen by _add_field_to_message
SetAttr(cls, m, name, value) ==
    IF InOneOf(cls, name) THEN OneOfSetter(cls, m, name, value)
    ELSE IF FieldByName(cls, name).kind = "Map" THEN MapSetter(cls, m, name, value)
    ELSE FieldSetter(cls, m, name, value)

\* getattr(m, name): the value read, and the instance after the read.
\* RepeatedGetter and MapGetter store an empty container on the first read;
\* FieldGetter reads the default of a primitive field and None for a message.
GetAttr(cls, m, name) ==
    IF name \in DOMAIN m.data THEN [val |-> m.data[name], m |-> m]
    ELSE IF FieldByName(cls, name).kind = "Repeated"
    THEN [val |-> PyList(<<>>), m |-> [m EXCEPT !.data = Put(m.data, name, PyList(<<>>))]]
    ELSE IF FieldByName(cls, name).kind = "Map"
    THEN [val |-> PyDict(<<>>), m |-> [m EXCEPT !.data = Put(m.data, name, PyDict(<<>>))]]
    ELSE IF FieldByName(cls, name).kind = "Message" THEN [val |-> None, m |-> m]
    ELSE [val |-> FieldByName(cls, name).default, m |-> m]

\* Message.__init__(**kwargs): the keywords in order, None skipped
RECURSIVE InitFrom(_, _, _, _)
InitFrom(cls, m, kwargs, i) ==
    IF i > Len(kwargs) THEN Wrote(m)
    ELSE IF kwargs[i][1] \notin FieldNames(cls) THEN Failed("AttributeError", m)
    ELSE IF kwargs[i][2] = None THEN InitFrom(cls, m, kwargs, i + 1)
    ELSE With(SetAttr(cls, m, kwargs[i][1], kwargs[i][2]),
              LAMBDA w : IF w.err # "" THEN w ELSE InitFrom(cls, w.m, kwargs, i + 1))

New(cls, kwargs) == InitFrom(cls, PyMsg(cls.name, Empty, Empty), kwargs, 1)

\* Message.has_field, which_one_of (None when nothing of the group was written),
\* is_initialized
has_field(m, name) == name \in DOMAIN m.data

which_one_of(m, group) == IF group \in DOMAIN m.which THEN m.which[group] ELSE "None"

is_initialized(cls, m) == RequiredFields(cls) \subseteq DOMAIN m.data

(***************************************************************************)
(* Encoding (protox/fields.py, Message.to_stream).  An encoder returns     *)
(* err ("" or the exception raised), the bytes it produced and val, the    *)
(* value after the call: to_bytes of a nested message reads its fields     *)
(* through the accessors, which may store empty containers in it.          *)
(***************************************************************************)
Enc(bytes, val) == [err |-> "", bytes |-> bytes, val |-> val]

EncFail(err, val) == [err |-> err, bytes |-> <<>>, val |-> val]

\* encode_bytes
encode_bytes(data) == encode_varint(I(Len(data))) \o data

\* struct.pack('<I' | '<i' | '<Q' | '<q', value): n bytes, least significant first
RECURSIVE PackLE(_, _)
PackLE(value, n) ==
    IF n = 0 THEN <<>>
    ELSE <<BitsVal(Ext(value, 8))>> \o PackLE(Shr(value, 8), n - 1)

\* str.encode('utf-8'), for code points below 2048
RECURSIVE utf8_encode(_)
utf8_encode(cps) ==
    IF cps = <<>> THEN <<>>
    ELSE (IF Head(cps) < 128 THEN <<Head(cps)>>
          ELSE <<192 + (Head(cps) \div 64), 128 + (Head(cps) % 64)>>)
         \o utf8_encode(Tail(cps))

\* Int.encode_value without the two's complement of a negative value: a mutant
IntEncodeValueUnsigned(value) == encode_varint(IF value.neg THEN Neg(value) ELSE value)

\* Int.encode_value
IntEncodeValue(value) == encode_varint(IF Lt(value, Zero) THEN Add(value, Pow2(64)) ELSE value)

\* what the encode_value of a field class returns for a value that is no message
ScalarBytes(f, value) ==
    IF f.kind \in {"Int32", "Int64", "UInt32", "UInt64"} THEN IntEncodeValue(value)
    ELSE IF f.kind = "Bool" THEN <<IF value.v THEN 1 ELSE 0>>
    ELSE IF f.kind \in {"SInt32", "SInt64", "Enum"}
    THEN encode_varint(IF f.kind = "SInt32" THEN encode_zig_zag32(value)
                       ELSE IF f.kind = "SInt64" THEN encode_zig_zag64(value)
                       ELSE value)
    ELSE IF f.kind \in {"Fixed32", "SFixed32", "Fixed64", "SFixed64"}
    THEN PackLE(value, IF f.kind \in {"Fixed32", "SFixed32"} THEN 4 ELSE 8)
    ELSE encode_bytes(IF f.kind = "Bytes" THEN value.b ELSE utf8_encode(value.cp))

RECURSIVE to_stream(_, _)
RECURSIVE EncodeValue(_, _)
RECURSIVE EncodeItems(_, _, _, _, _)
RECURSIVE EncodeEntries(_, _, _, _)
RECURSIVE WriteFields(_, _, _, _)

\* encode_value of the field classes that are not containers; encode_varint
\* does not return for a negative enum value
EncodeValue(f, value) ==
    IF value = None THEN EncFail("TypeError", value)
    ELSE IF f.kind = "Enum" /\ value.neg THEN EncFail("NonTermination", value)
    ELSE IF f.kind # "Message" THEN Enc(ScalarBytes(f, value), value)
    ELSE With(to_stream(Class(f.of), value),
              LAMBDA r : IF r.err # "" THEN EncFail(r.err, r.m)
                         ELSE Enc(encode_bytes(r.bytes), r.m))

\* the loop of PackedRepeatedStrategy.encode (each is FALSE) and of
\* UnpackedRepeatedStrategy.encode (each is TRUE: a header before every item)
EncodeItems(f, items, i, each, out) ==
    IF i > Len(items) THEN Enc(out, items)
    ELSE With(EncodeValue(ElemField(f), items[i]),
              LAMBDA e :
                  IF e.err # "" THEN EncFail(e.err, [items EXCEPT ![i] = e.val])
                  ELSE EncodeItems(f, [items EXCEPT ![i] = e.val], i + 1, each,
                                   out \o (IF each THEN Header(ElemField(f)) ELSE <<>>)
                                       \o e.bytes))

\* the loop of MapField.encode_value; the entry is a new instance, and the
\* keys and values of the maps of the model are no messages
EncodeEntries(f, pairs, i, out) ==
    IF i > Len(pairs) THEN Enc(out, pairs)
    ELSE With(New(DictEntry(f), << <<"key", pairs[i][1]>>, <<"value", pairs[i][2]>> >>),
              LAMBDA entry :
                  IF entry.err # "" THEN EncFail(entry.err, pairs)
                  ELSE With(to_stream(DictEntry(f), entry.m),
                            LAMBDA r :
                                IF r.err # "" THEN EncFail(r.err, pairs)
                                ELSE EncodeEntries(f, pairs, i + 1,
                                                   out \o Header(f) \o encode_bytes(r.bytes))))

\* field.encode(value): Field.encode, Repeated.encode, MapField.encode
Encode(f, value) ==
    IF f.kind = "Repeated"
    THEN IF value.items = <<>> THEN Enc(<<>>, value)
         ELSE With(EncodeItems(f, value.items, 1, ~f.packed, <<>>),
                   LAMBDA e :
                       IF e.err # "" THEN EncFail(e.err, PyList(e.val))
                       ELSE Enc((IF f.packed THEN Header(f) \o encode_bytes(e.bytes)
                                 ELSE e.bytes),
                                PyList(e.val)))
    ELSE IF f.kind = "Map"
    THEN With(EncodeEntries(f, value.pairs, 1, <<>>),
              LAMBDA e : IF e.err # "" THEN EncFail(e.err, PyDict(e.val))
                         ELSE Enc(e.bytes, PyDict(e.val)))
    ELSE With(EncodeValue(f, value),
              LAMBDA e : IF e.err # "" THEN e ELSE Enc(Header(f) \o e.bytes, e.val))

\* the value of a field that is not explicitly set is skipped, default or not: a mutant
SkipsUnsetDefault(required, value, isset) == ~isset /\ ~required

\* to_stream: value is None and not getattr(field, 'required', False)
Skips(required, value, isset) == value = None /\ ~required

\* the instance after field.encode(value) has run on the value read from name
Stored(m, name, value) ==
    IF name \in DOMAIN m.data THEN [m EXCEPT !.data = Put(m.data, name, value)] ELSE m

\* the field loop of to_stream, from field i on, out being what is written so far
WriteFields(cls, m, i, out) ==
    IF i > Len(cls.fields) THEN [err |-> "", bytes |-> out, m |-> m]
    ELSE With(GetAttr(cls, m, cls.fields[i].name),
              LAMBDA g :
                  IF Skips(cls.fields[i].required, g.val, cls.fields[i].name \in DOMAIN m.data)
                  THEN WriteFields(cls, g.m, i + 1, out)
                  ELSE With(Encode(cls.fields[i], g.val),
                            LAMBDA e :
                                IF e.err # ""
                                THEN [err |-> e.err, bytes |-> out,
                                      m |-> Stored(g.m, cls.fields[i].name, e.val)]
                                ELSE WriteFields(cls, Stored(g.m, cls.fields[i].name, e.val),
                                                 i + 1, out \o e.bytes)))

\* to_stream with the check of the required fields left out: a mutant
to_stream_unchecked(cls, m) == WriteFields(cls, m, 1, <<>>)

\* Message.to_stream: what is written to the stream, and the instance after it
to_stream(cls, m) ==
    IF ~is_initialized(cls, m) THEN [err |-> "MessageEncodeError", bytes |-> <<>>, m |-> m]
    ELSE WriteFields(cls, m, 1, <<>>)

(***************************************************************************)
(* Decoding (protox/fields.py, Message.from_stream).                       *)
(***************************************************************************)
\* the number of bytes stream.read(length) returns at position pos
ReadLen(buf, pos, length) ==
    IF Lt(I(IF pos > Len(buf) THEN 0 ELSE Len(buf) - pos + 1), length)
    THEN (IF pos > Len(buf) THEN 0 ELSE Len(buf) - pos + 1)
    ELSE ToNat(length)

\* stream.read(length) refuses a length that is no index-sized integer
TooLong(length) == ~Lt(length, Pow2(63))

\* struct.unpack('<I' | '<Q', data)[0]
RECURSIVE UnpackLE(_, _)
UnpackLE(data, i) ==
    IF i > Len(data) THEN Zero
    ELSE Or(Shl(I(data[i]), 8 * (i - 1)), UnpackLE(data, i + 1))

\* struct.unpack('<i' | '<q', data)[0]
UnpackSignedLE(data) ==
    IF data[Len(data)] >= 128 THEN Sub(UnpackLE(data, 1), Pow2(8 * Len(data)))
    ELSE UnpackLE(data, 1)

\* bytes.decode('utf-8'), for code points below 2048: [err, cp]
RECURSIVE utf8_decode(_, _, _)
utf8_decode(data, i, out) ==
    IF i > Len(data) THEN [err |-> "", cp |-> out]
    ELSE IF data[i] < 128 THEN utf8_decode(data, i + 1, Append(out, data[i]))
    ELSE IF /\ data[i] \in 194..223
            /\ i < Len(data)
            /\ data[i + 1] \in 128..191
    THEN utf8_decode(data, i + 2, Append(out, (data[i] - 192) * 64 + (data[i + 1] - 128)))
    ELSE [err |-> "UnicodeDecodeError", cp |-> out]

\* the block of length l.val read behind the varint l, whatever is left of it: a mutant
ReadBlockUnchecked(buf, l) ==
    IF l.err # "" THEN l
    ELSE IF TooLong(l.val) THEN Raise("OverflowError", l.pos)
    ELSE Ok(Read(buf, l.pos, ReadLen(buf, l.pos, l.val)), l.pos + ReadLen(buf, l.pos, l.val))

\* data = stream.read(length) behind the varint l, and the check len(data) < length
ReadBlock(buf, l) ==
    IF l.err # "" THEN l
    ELSE IF TooLong(l.val) THEN Raise("OverflowError", l.pos)
    ELSE IF Lt(I(ReadLen(buf, l.pos, l.val)), l.val)
    THEN Raise("MessageDecodeError", l.pos + ReadLen(buf, l.pos, l.val))
    ELSE Ok(Read(buf, l.pos, ToNat(l.val)), l.pos + ToNat(l.val))

\* decode_bytes
decode_bytes(buf, pos) == ReadBlock(buf, decode_varint(buf, pos))

\* _decode_fixed32, _decode_fixed64 and the decode of the fixed-width fields:
\* the n bytes read, or MessageDecodeError when fewer are left
ReadFixed(buf, pos, n) ==
    IF pos + n - 1 > Len(buf) THEN Raise("MessageDecodeError", Len(buf) + 1)
    ELSE Ok(Read(buf, pos, n), pos + n)

\* wire_type_to_decoder[wire_type](stream): read and discard an unknown field
SkipField(wire_type, buf, pos) ==
    IF wire_type = VARINT THEN decode_varint(buf, pos)
    ELSE IF wire_type \in {FIXED_64, FIXED_32}
    THEN ReadFixed(buf, pos, IF wire_type = FIXED_64 THEN 8 ELSE 4)
    ELSE IF wire_type = LENGTH THEN decode_bytes(buf, pos)
    ELSE IF wire_type \in {3, 4} THEN Raise("NotImplementedError", pos)
    ELSE Raise("KeyError", pos)

\* Int.decode that keeps the unsigned value: a mutant
IntDecodeUnsigned(value) == value

\* Int.decode: a value above 2 ** 63 - 1 stands for a negative one
IntDecode(value) == IF Lt(MAX_INT64, value) THEN Sub(value, Pow2(64)) ELSE value

\* EnumField.decode that keeps the ordinal of an unknown variant: a mutant
EnumDecodeRaw(of, value) == value

\* EnumField.decode: the variant, or None for an ordinal that is no variant
EnumDecode(of, value) == IF value \in EnumVariants(of) THEN value ELSE None

\* bool(x), as the "not default" of from_stream's check needs it
Truthy(value) ==
    IF value.k = "none" THEN FALSE
    ELSE IF value.k = "int" THEN value # Zero
    ELSE IF value.k = "bool" THEN value.v
    ELSE IF value.k = "str" THEN value.cp # <<>>
    ELSE IF value.k = "bytes" THEN value.b # <<>>
    ELSE IF value.k = "list" THEN value.items # <<>>
    ELSE IF value.k = "dict" THEN value.pairs # <<>>
    ELSE TRUE

\* what decode of a varint field class makes of the varint read
FromVarint(f, value) ==
    IF f.kind \in {"Int32", "Int64"} THEN IntDecode(value)
    ELSE IF f.kind \in {"UInt32", "UInt64"} THEN value
    ELSE IF f.kind \in {"SInt32", "SInt64"} THEN decode_zig_zag(value)
    ELSE IF f.kind = "Bool" THEN PyBool(value # Zero)
    ELSE EnumDecode(f.of, value)

\* what decode of a fixed-width field class makes of the bytes read
FromFixed(f, data) ==
    IF f.kind \in {"Fixed32", "Fixed64"} THEN UnpackLE(data, 1) ELSE UnpackSignedLE(data)

\* what Bytes.decode and String.decode make of the bytes read
FromBlock(f, r) ==
    IF f.kind = "Bytes" THEN Ok(PyBytes(r.val), r.pos)
    ELSE With(utf8_decode(r.val, 1, <<>>),
              LAMBDA u : IF u.err # "" THEN Raise(u.err, r.pos) ELSE Ok(PyStr(u.cp), r.pos))

\* return Of(value), for the value that the read r returned unless it raised
Return(r, Of(_)) == IF r.err # "" THEN r ELSE Ok(Of(r.val), r.pos)

\* decode_header: header >> 3 and header & 0b111
decode_header(buf, pos) ==
    Return(decode_varint(buf, pos),
           LAMBDA header : [number |-> Shr(header, 3), wire_type |-> BitsVal(Ext(header, 3))])

RECURSIVE from_stream(_, _, _)
RECURSIVE DecodeValue(_, _, _, _)
RECURSIVE ReadFields(_, _, _, _, _)

\* the result of from_stream: err and, when err is "", the message built; mf is
\* message_fields as the loop left it, and at the statement that raised: the
\* loop, the strict check or the constructor call
Decoded(m, mf) == [err |-> "", m |-> m, mf |-> mf, at |-> ""]

DecodeFailed(err, mf, at) == [err |-> err, m |-> None, mf |-> mf, at |-> at]

\* MessageField.decode behind the length l: the payload is what is left of
\* the stream, however short
DecodeMessage(f, buf, l, strict) ==
    IF l.err # "" THEN l
    ELSE IF TooLong(l.val) THEN Raise("OverflowError", l.pos)
    ELSE With(from_stream(Class(f.of), Read(buf, l.pos, ReadLen(buf, l.pos, l.val)), strict),
              LAMBDA d :
                  IF d.err # "" THEN Raise(d.err, l.pos + ReadLen(buf, l.pos, l.val))
                  ELSE Ok(d.m, l.pos + ReadLen(buf, l.pos, l.val)))

\* decode of the field classes that are not containers
DecodeValue(f, buf, pos, strict) ==
    IF f.kind \in {"Fixed32", "Fixed64", "SFixed32", "SFixed64"}
    THEN Return(ReadFixed(buf, pos, IF f.kind \in {"Fixed32", "SFixed32"} THEN 4 ELSE 8),
                LAMBDA data : FromFixed(f, data))
    ELSE With(decode_varint(buf, pos),
              LAMBDA l :
                  IF f.kind \in VarintKinds THEN Return(l, LAMBDA value : FromVarint(f, value))
                  ELSE IF f.kind = "Message" THEN DecodeMessage(f, buf, l, strict)
                  ELSE With(ReadBlock(buf, l),
                            LAMBDA r : IF r.err # "" THEN r ELSE FromBlock(f, r)))

\* the loop of PackedRepeatedStrategy.decode over the block read
RECURSIVE DecodePackedItems(_, _, _, _)
DecodePackedItems(f, data, pos, items) ==
    IF pos > Len(data) THEN Ok(PyList(items), pos)
    ELSE With(DecodeValue(ElemField(f), data, pos, TRUE),
              LAMBDA r : IF r.err # "" THEN r
                         ELSE DecodePackedItems(f, data, r.pos, Append(items, r.val)))

\* PackedRepeatedStrategy.decode
DecodePacked(f, buf, pos) ==
    With(decode_bytes(buf, pos),
         LAMBDA b :
             IF b.err # "" THEN b
             ELSE With(DecodePackedItems(f, b.val, 1, <<>>),
                       LAMBDA r : IF r.err # "" THEN Raise(r.err, b.pos) ELSE Ok(r.val, b.pos)))

\* MapField.decode: the pair (entry.key, entry.value) of the entry read
DecodeEntry(f, buf, pos) ==
    With(decode_bytes(buf, pos),
         LAMBDA b :
             IF b.err # "" THEN b
             ELSE With(from_stream(DictEntry(f), b.val, TRUE),
                       LAMBDA d :
                           IF d.err # "" THEN Raise(d.err, b.pos)
                           ELSE Ok(<<GetAttr(DictEntry(f), d.m, "key").val,
                                     GetAttr(DictEntry(f), d.m, "value").val>>, b.pos)))

\* message_fields[name], or the default given
Lookup(pairs, key, default) ==
    IF PairIndex(pairs, key, 1) = 0 THEN default ELSE pairs[PairIndex(pairs, key, 1)][2]

\* the check of a field's wire type left out: a mutant
WireTypeMismatchIgnored(f, wire_type) == FALSE

\* from_stream: field.wire_type != wire_type
WireTypeMismatch(f, wire_type) == WireTypeOf(f) # wire_type

\* field.decode(stream), as from_stream calls it for the field f
DecodeField(f, buf, pos, strict) ==
    IF f.kind = "Repeated" /\ f.packed THEN DecodePacked(f, buf, pos)
    ELSE IF f.kind = "Map" THEN DecodeEntry(f, buf, pos)
    ELSE DecodeValue(IF f.kind = "Repeated" THEN ElemField(f) ELSE f, buf, pos,
                     f.kind = "Repeated" \/ strict)

\* message_fields after the value read was stored for the field f
StoreFieldFirst(mf, f, value) ==
    DictSet(mf, f.name,
            IF f.kind = "Repeated" /\ ~f.packed
            THEN PyList(Append(Lookup(mf, f.name, PyList(<<>>)).items, value))
            ELSE IF f.kind = "Map"
            THEN PyDict(IF PairIndex(Lookup(mf, f.name, PyDict(<<>>)).pairs, value[1], 1) = 0
                        THEN Append(Lookup(mf, f.name, PyDict(<<>>)).pairs, value)
                        ELSE Lookup(mf, f.name, PyDict(<<>>)).pairs)
            ELSE value)

StoreField(mf, f, value) ==
    DictSet(mf, f.name,
            IF f.kind = "Repeated" /\ ~f.packed
            THEN PyList(Append(Lookup(mf, f.name, PyList(<<>>)).items, value))
            ELSE IF f.kind = "Map"
            THEN PyDict(DictSet(Lookup(mf, f.name, PyDict(<<>>)).pairs, value[1], value[2]))
            ELSE value)

\* the body of the loop of from_stream behind the header h of a known field f
ReadKnown(cls, buf, h, f, mf, strict) ==
    IF WireTypeMismatch(f, h.val.wire_type) THEN [err |-> "MessageDecodeError", mf |-> mf]
    ELSE With(DecodeField(f, buf, h.pos, strict),
              LAMBDA r : IF r.err # "" THEN [err |-> r.err, mf |-> mf]
                         ELSE ReadFields(cls, buf, r.pos, StoreField(mf, f, r.val), strict))

\* the body of the loop of from_stream behind the header h of an unknown field
ReadUnknown(cls, buf, h, mf, strict) ==
    With(SkipField(h.val.wire_type, buf, h.pos),
         LAMBDA r : IF r.err # "" THEN [err |-> r.err, mf |-> mf]
                    ELSE ReadFields(cls, buf, r.pos, mf, strict))

\* the loop of from_stream from position pos on, mf being message_fields so far:
\* err and, when it is "", the message_fields read
ReadFields(cls, buf, pos, mf, strict) ==
    With(decode_header(buf, pos),
         LAMBDA h :
             IF h.err # "" THEN [err |-> "", mf |-> mf]
             ELSE IF HasNumber(cls, h.val.number)
             THEN ReadKnown(cls, buf, h, FieldByNumber(cls, h.val.number), mf, strict)
             ELSE ReadUnknown(cls, buf, h, mf, strict))

\* the strict check with "default is None" in the place of "not default": a mutant
MissingRequiredByNone(cls, mf) ==
    \E f \in Range(cls.fields) :
        f.required /\ f.default = None /\ PairIndex(mf, f.name, 1) = 0

\* the strict check of from_stream: some field is required, has a default
\* that is not true, and is no key of message_fields
MissingRequired(cls, mf) ==
    \E f \in Range(cls.fields) :
        f.required /\ ~Truthy(f.default) /\ PairIndex(mf, f.name, 1) = 0

\* cls(**message_fields), the last line of from_stream
Build(cls, mf) ==
    With(New(cls, mf),
         LAMBDA w : IF w.err # "" THEN DecodeFailed(w.err, mf, "init") ELSE Decoded(w.m, mf))

\* Message.from_stream
from_stream(cls, buf, strict) ==
    With(ReadFields(cls, buf, 1, <<>>, strict),
         LAMBDA r :
             IF r.err # "" THEN DecodeFailed(r.err, r.mf, "loop")
             ELSE IF strict /\ MissingRequired(cls, r.mf)
             THEN DecodeFailed("MessageDecodeError", r.mf, "strict")
             ELSE Build(cls, r.mf))

(***************************************************************************)
(* Equality (Message.__eq__).  A comparison is "T" or "F", or "E" when it  *)
(* raises ValueError: a message compared with what is no instance of its   *)
(* class.  all() stops at the first field that differs, and so does the    *)
(* comparison of two lists at the first pair of items that differ.         *)
(***************************************************************************)
RECURSIVE PyEq(_, _)
RECURSIVE ItemsEq(_, _, _)
RECURSIVE FieldsEq(_, _, _, _)

\* list.__eq__: lists of different lengths differ, before any item is compared
ItemsEq(a, b, i) ==
    IF Len(a) # Len(b) THEN "F"
    ELSE IF i > Len(a) THEN "T"
    ELSE With(PyEq(a[i], b[i]), LAMBDA e : IF e # "T" THEN e ELSE ItemsEq(a, b, i + 1))

\* dict.__eq__: the same keys with the same values, in any order
PairsEq(a, b) ==
    IF Len(a) = Len(b) /\ Range(a) = Range(b) THEN "T" ELSE "F"

\* all(getattr(self, field) == getattr(other, field) for field in self.list_fields())
FieldsEq(cls, a, b, i) ==
    IF i > Len(cls.fields) THEN "T"
    ELSE With(PyEq(GetAttr(cls, a, cls.fields[i].name).val,
                   GetAttr(cls, b, cls.fields[i].name).val),
              LAMBDA e : IF e # "T" THEN e ELSE FieldsEq(cls, a, b, i + 1))

\* a == b
PyEq(a, b) ==
    IF a.k = "msg" /\ b.k = "msg"
    THEN (IF a.type # b.type THEN "E" ELSE FieldsEq(Class(a.type), a, b, 1))
    ELSE IF a.k = "msg" \/ b.k = "msg" THEN "E"
    ELSE IF a.k # b.k THEN "F"
    ELSE IF a.k = "list" THEN ItemsEq(a.items, b.items, 1)
    ELSE IF a.k = "dict" THEN PairsEq(a.pairs, b.pairs)
    ELSE IF a = b THEN "T" ELSE "F"

(***************************************************************************)
(* The wire primitives applied to one argument.                            *)
(***************************************************************************)
\* the small arguments are -MaxSmall..MaxSmall
MaxSmall == 24

\* the powers of two 2^0..2^MaxPow and their neighbours
MaxPow == 64

InRange(x, lo, hi) == Le(lo, x) /\ Le(x, hi)

CodecInputs ==
    {I(n) : n \in -MaxSmall..MaxSmall}
    \cup {Pow2(n) : n \in 0..MaxPow}
    \cup {Sub(Pow2(n), One) : n \in 0..MaxPow}
    \cup {Neg(Pow2(n)) : n \in 0..MaxPow}
    \cup {Sub(Neg(Pow2(n)), One) : n \in 0..MaxPow}

NoCall == [op |-> "none"]

Idle == [op |-> "none"]

\* decode_varint(io.BytesIO(encode_varint(cin)))
VarintRoundTrip ==
    /\ cout.op = "none"
    /\ InRange(cin, Zero, MAX_UINT64)
    /\ cout' = [op |-> "varint", bytes |-> encode_varint(cin),
                dec |-> decode_varint(encode_varint(cin), 1)]
    /\ UNCHANGED <<msg, writes, lastop, wire, res, cin>>

\* decode_zig_zag(encode_zig_zag32(cin))
ZigZag32RoundTrip ==
    /\ cout.op = "none"
    /\ InRange(cin, MIN_INT32, MAX_INT32)
    /\ cout' = [op |-> "zigzag32", enc |-> encode_zig_zag32(cin),
                dec |-> decode_zig_zag(encode_zig_zag32(cin))]
    /\ UNCHANGED <<msg, writes, lastop, wire, res, cin>>

\* decode_zig_zag(encode_zig_zag64(cin))
ZigZag64RoundTrip ==
    /\ cout.op = "none"
    /\ InRange(cin, MIN_INT64, MAX_INT64)
    /\ cout' = [op |-> "zigzag64", enc |-> encode_zig_zag64(cin),
                dec |-> decode_zig_zag(encode_zig_zag64(cin))]
    /\ UNCHANGED <<msg, writes, lastop, wire, res, cin>>

CodecInit ==
    /\ cin \in CodecInputs
    /\ cout = NoCall
    /\ msg = Idle
    /\ writes = 0
    /\ lastop = Idle
    /\ wire = Idle
    /\ res = Idle

CodecNext == VarintRoundTrip \/ ZigZag32RoundTrip \/ ZigZag64RoundTrip

SpecCodec == CodecInit /\ [][CodecNext]_vars

\* C9: for every x in [0, 2^64), decode_varint reads x back from the bytes of
\* encode_varint(x) and stops right behind the last of them.
VarintBijection ==
    cout.op = "varint" =>
        /\ cout.dec.err = ""
        /\ cout.dec.val = cin
        /\ cout.dec.pos = Len(cout.bytes) + 1

\* a ten-byte varint, the longest, has been written and read back
VarintWitness ==
    /\ cout.op = "varint"
    /\ cin = MAX_UINT64
    /\ Len(cout.bytes) = VarintMaxBytes
    /\ cout.dec.val = cin

\* C10: for every x of the signed 32-bit range decode_zig_zag(encode_zig_zag32(x))
\* is x, for every x of the signed 64-bit range decode_zig_zag(encode_zig_zag64(x))
\* is x, and the encoded value is not negative.
ZigZagLaws ==
    cout.op \in {"zigzag32", "zigzag64"} =>
        /\ cout.dec = cin
        /\ ~cout.enc.neg

\* the most negative number of each width has been encoded and decoded
ZigZagWitness ==
    \/ cout.op = "zigzag32" /\ cin = MIN_INT32 /\ cout.enc = MAX_UINT32 /\ cout.dec = cin
    \/ cout.op = "zigzag64" /\ cin = MIN_INT64 /\ cout.enc = MAX_UINT64 /\ cout.dec = cin

(***************************************************************************)
(* The message runtime at work: an instance is constructed, written to     *)
(* through its attributes, encoded with to_stream, and what was encoded    *)
(* is decoded with from_bytes by its own class or by another class         *)
(* declared for the same wire.                                             *)
(***************************************************************************)
\* attribute writes made on an instance after its construction
MaxWrites == 1

\* keywords given to a constructor
MaxKwargs == 1

\* items of a list and entries of a dict written to a field
MaxItems == 2

\* the sequences over S of length n
RECURSIVE SeqsOfLen(_, _)
SeqsOfLen(S, n) ==
    IF n = 0 THEN {<<>>}
    ELSE {Append(q, x) : q \in SeqsOfLen(S, n - 1), x \in S}

SeqsUpTo(S, n) == UNION {SeqsOfLen(S, k) : k \in 0..n}

\* values a field class accepts
Samples(f) ==
    CASE f.kind = "Int32" -> {I(9), I(-1)}
      [] f.kind = "Int64" -> {I(300), MIN_INT64}
      [] f.kind = "UInt32" -> {I(1), MAX_UINT32}
      [] f.kind = "UInt64" -> {I(1), MAX_UINT64}
      [] f.kind = "SInt32" -> {I(-1), MIN_INT32}
      [] f.kind = "SInt64" -> {I(-3), MAX_INT64}
      [] f.kind = "Bool" -> {PyBool(TRUE), PyBool(FALSE)}
      [] f.kind = "Enum" -> EnumVariants(f.of)
      [] f.kind = "Fixed32" -> {I(1), MAX_UINT32}
      [] f.kind = "Fixed64" -> {I(258), MAX_UINT64}
      [] f.kind = "SFixed32" -> {I(-1), MIN_INT32}
      [] f.kind = "SFixed64" -> {I(-2), MAX_INT64}
      [] f.kind = "String" -> {PyStr(<<>>), PyStr(<<97, 233>>)}
      [] f.kind = "Bytes" -> {PyBytes(<<>>), PyBytes(<<0, 255>>)}
      [] f.kind = "Message" -> {PyMsg(f.of, Empty, Empty), PyMsg(f.of, "a" :> I(1), Empty)}

\* a value a field class rejects
BadValue(f) ==
    IF f.kind \in IntKinds THEN Add(MaxValue(f.kind), One)
    ELSE IF f.kind = "Enum" THEN I(9)
    ELSE None

\* the entries of a dict: no key twice
DistinctKeys(pairs) ==
    \A i, j \in 1..Len(pairs) : pairs[i][1] = pairs[j][1] => i = j

\* values a field accepts
Values(f) ==
    IF f.kind = "Repeated"
    THEN {PyList(q) : q \in SeqsUpTo(Samples(ElemField(f)), MaxItems)}
    ELSE IF f.kind = "Map"
    THEN {PyDict(q) : q \in {p \in SeqsUpTo(Samples(KeyField(f)) \X Samples(ValueField(f)),
                                            MaxItems) : DistinctKeys(p)}}
    ELSE Samples(f)

\* values written to a field: those it accepts and one it rejects
Inputs(f) ==
    Values(f) \cup
    {IF f.kind = "Repeated" THEN PyList(<<BadValue(ElemField(f))>>)
     ELSE IF f.kind = "Map" THEN PyDict(<< <<PyStr(<<>>), BadValue(ValueField(f))>> >>)
     ELSE BadValue(f)}

\* the keyword lists of a constructor call
Kwargs(cls) ==
    SeqsUpTo(UNION {{<<f.name, v>> : v \in Values(f)} : f \in Range(cls.fields)}, MaxKwargs)

\* the classes that read what a class wrote: itself, the class it extends
\* (test_read_unknown_fields) or is extended by, and the class that declares
\* the same fields with the other repeated strategy or with an enum for an integer
Readers(type) ==
    {type} \cup
    (CASE type = "UserV2" -> {"User"}
       [] type = "OneOfDefaultV2" -> {"OneOfDefault"}
       [] type = "DefaultsV1" -> {"Defaults"}
       [] type = "EnumTwin" -> {"EnumMessage"}
       [] type = "Packed" -> {"Unpacked"}
       [] type = "Unpacked" -> {"Packed"}
       [] OTHER -> {})

\* T(**kwargs), for a T and keywords the constructor accepts
Init ==
    /\ \E type \in Types : \E kwargs \in Kwargs(Class(type)) :
          /\ New(Class(type), kwargs).err = ""
          /\ msg = New(Class(type), kwargs).m
          /\ lastop = [op |-> "new", kwargs |-> kwargs]
    /\ writes = 0
    /\ wire = Idle
    /\ res = Idle
    /\ cin = Zero
    /\ cout = NoCall

\* what a write of name made of an instance that had the names of had stored
WriteDone(name, had, w) == [op |-> "set", name |-> name, had |-> had, err |-> w.err, m |-> w.m]

\* msg.name = value
SetField(name, value) ==
    /\ writes < MaxWrites
    /\ writes' = writes + 1
    /\ lastop' = WriteDone(name, DOMAIN msg.data, SetAttr(Class(msg.type), msg, name, value))
    /\ msg' = lastop'.m
    /\ wire' = Idle
    /\ res' = Idle
    /\ UNCHANGED <<cin, cout>>

\* what to_stream wrote for an instance of type that had the names of had
\* stored, and the instance after it
Written(type, had, r) ==
    [op |-> "to_stream", type |-> type, had |-> had, err |-> r.err, bytes |-> r.bytes,
     m |-> r.m]

\* msg.to_stream(stream), on an empty stream
ToStream ==
    /\ wire' = Written(msg.type, DOMAIN msg.data, to_stream(Class(msg.type), msg))
    /\ msg' = wire'.m
    /\ lastop' = [op |-> "to_stream"]
    /\ res' = Idle
    /\ UNCHANGED <<writes, cin, cout>>

\* what cls.from_bytes made of the bytes
Got(cls, d) ==
    [op |-> "from_bytes", cls |-> cls, err |-> d.err, m |-> d.m, mf |-> d.mf, at |-> d.at]

\* cls.from_bytes(data), data being what to_bytes returned
FromBytes(cls) ==
    /\ wire.op = "to_stream"
    /\ wire.err = ""
    /\ cls \in Readers(wire.type)
    /\ res' = Got(cls, from_stream(Class(cls), wire.bytes, TRUE))
    /\ UNCHANGED <<msg, writes, lastop, wire, cin, cout>>

Next ==
    \/ \E name \in FieldNames(Class(msg.type)) :
          \E value \in Inputs(FieldByName(Class(msg.type), name)) : SetField(name, value)
    \/ ToStream
    \/ \E cls \in Types : FromBytes(cls)

Spec == Init /\ [][Next]_vars

(***************************************************************************)
(* Properties of the message runtime.                                      *)
(***************************************************************************)
\* the instance that to_bytes encoded was decoded by its own class
ReadBack == res.op = "from_bytes" /\ res.cls = wire.type

\* C1: for every message type T and every instance m with T's required fields
\* set, T.from_bytes(m.to_bytes()) == m, one-of fields and declared defaults
\* included.
RoundTrip == ReadBack => res.err = "" /\ PyEq(res.m, wire.m) = "T"

\* a one-of member that was written came back as another member
RoundTripLostOneOf ==
    /\ ReadBack
    /\ res.err = ""
    /\ \E g \in Range(Class(wire.type).one_ofs) :
          /\ which_one_of(wire.m, g.name) # "None"
          /\ which_one_of(res.m, g.name) # which_one_of(wire.m, g.name)

\* the members of the group g that the instance m has stored
Present(m, g) == Range(g.fields) \cap DOMAIN m.data

\* at most one member of each one-of group of m is stored, the one which_one_of reports
Exclusive(m) ==
    \A g \in Range(Class(m.type).one_ofs) :
        /\ Cardinality(Present(m, g)) <= 1
        /\ \A name \in Present(m, g) : which_one_of(m, g.name) = name

\* the member name of a one-of group was written last: which_one_of reports
\* it and every other member of its group is not stored and reads as a
\* field that was never written
Winner(m, name) ==
    /\ which_one_of(m, OneOfByFieldName(Class(m.type), name).name) = name
    /\ \A other \in Range(OneOfByFieldName(Class(m.type), name).fields) \ {name} :
          /\ ~has_field(m, other)
          /\ GetAttr(Class(m.type), m, other).val = FieldByName(Class(m.type), other).default

\* the keyword i of a constructor call names a member of a one-of group, and
\* no later keyword names a member of that group
LastOfGroup(cls, kwargs, i) ==
    /\ InOneOf(cls, kwargs[i][1])
    /\ \A j \in (i + 1)..Len(kwargs) :
          kwargs[j][1] \notin Range(OneOfByFieldName(cls, kwargs[i][1]).fields)

\* the last operation wrote a member of a one-of group by attribute assignment
WroteMember ==
    lastop.op = "set" /\ lastop.err = "" /\ InOneOf(Class(msg.type), lastop.name)

\* C2: after a write of a member x of a one-of group g, by assignment or by
\* constructor keyword, which_one_of(g) is x and every other member of g is
\* absent from the value map; in every reachable state of an instance at most
\* one member of each group is stored, the one which_one_of reports.
OneOfExclusive ==
    /\ Exclusive(msg)
    /\ res.op = "from_bytes" /\ res.err = "" => Exclusive(res.m)
    /\ WroteMember => Winner(msg, lastop.name)
    /\ lastop.op = "new" =>
          \A i \in 1..Len(lastop.kwargs) :
              LastOfGroup(Class(msg.type), lastop.kwargs, i) => Winner(msg, lastop.kwargs[i][1])

\* a member was written while another member of its group was stored
OneOfWitness ==
    /\ WroteMember
    /\ (lastop.had \cap Range(OneOfByFieldName(Class(msg.type), lastop.name).fields))
          \ {lastop.name} # {}

\* the fields written to buf from pos on: the number and the bytes of each
RECURSIVE WireChunks(_, _)
WireChunks(buf, pos) ==
    With(decode_header(buf, pos),
         LAMBDA h :
             IF h.err # "" THEN {}
             ELSE With(SkipField(h.val.wire_type, buf, h.pos),
                       LAMBDA r :
                           IF r.err # "" THEN {}
                           ELSE {[number |-> h.val.number, bytes |-> SubSeq(buf, pos, r.pos - 1)]}
                                \cup WireChunks(buf, r.pos)))

\* what was written for the field f
ChunksOf(f) == {c.bytes : c \in {d \in WireChunks(wire.bytes, 1) : d.number = I(f.number)}}

\* the fields of the encoded instance that are optional and were not stored
UnsetOptional ==
    {f \in Range(Class(wire.type).fields) : ~f.required /\ f.name \notin wire.had}

Encoded == wire.op = "to_stream" /\ wire.err = ""

Nested(v) ==
    IF v.k = "msg" THEN {v}
    ELSE IF v.k = "list" THEN {x \in Range(v.items) : x.k = "msg"}
    ELSE IF v.k = "dict" THEN {p[2] : p \in {q \in Range(v.pairs) : q[2].k = "msg"}}
    ELSE {}

\* m is initialized, and so is every message stored in it
RECURSIVE DeepInit(_)
DeepInit(m) ==
    /\ is_initialized(Class(m.type), m)
    /\ \A name \in DOMAIN m.data : \A n \in Nested(m.data[name]) : DeepInit(n)

\* C4 as stated: to_stream raises MessageEncodeError exactly when
\* is_initialized() is false, and on failure nothing has been written.
EncodeErrorIffUninitialized ==
    wire.op = "to_stream" =>
        /\ wire.err = "MessageEncodeError" <=> ~is_initialized(Class(wire.type), wire.m)
        /\ wire.err # "" => wire.bytes = <<>>

\* C4: to_stream raises MessageEncodeError, and nothing else, exactly when
\* the instance or a message stored in it is not initialized; nothing has
\* been written when it is the instance itself that is not initialized.
EncodeErrorIffDeepUninitialized ==
    wire.op = "to_stream" =>
        /\ wire.err \in {"", "MessageEncodeError"}
        /\ wire.err = "MessageEncodeError" <=> ~DeepInit(wire.m)
        /\ ~is_initialized(Class(wire.type), wire.m) => wire.bytes = <<>>

\* to_stream raised on an initialized instance after it had written a field
EncodeErrorWitness ==
    /\ wire.op = "to_stream"
    /\ wire.err = "MessageEncodeError"
    /\ is_initialized(Class(wire.type), wire.m)
    /\ wire.bytes # <<>>

\* some field of the required set of cls has no value in message_fields
RequiredUnset(cls, mf) == \E name \in RequiredFields(cls) : Lookup(mf, name, None) = None

\* C5: from_bytes(data, strict=True) raises the missing-required-field
\* MessageDecodeError exactly when a field of the required set (required, no
\* declared default) has no stored value after decoding, whatever the
\* non-null defaults of the other fields are.
StrictSymmetric ==
    res.op = "from_bytes" /\ res.at # "loop" =>
        (res.err = "MessageDecodeError" /\ res.at = "strict"
            <=> RequiredUnset(Class(res.cls), res.mf))

\* the pairs of a class and the class it extends with fields of new numbers
Extends == {<<"UserV2", "User">>, <<"OneOfDefaultV2", "OneOfDefault">>}

\* every field of cls reads in a what it reads in b
SameFields(cls, a, b) ==
    \A name \in FieldNames(cls) :
        PyEq(GetAttr(cls, a, name).val, GetAttr(Class(b.type), b, name).val) = "T"

\* C6: for T2 that has the fields of T1 and more fields with new numbers,
\* T1.from_bytes(m2.to_bytes()) succeeds and every field of T1 reads the
\* value it has in m2.
Projection ==
    res.op = "from_bytes" /\ <<wire.type, res.cls>> \in Extends =>
        res.err = "" /\ SameFields(Class(res.cls), res.m, wire.m)

\* C7: for a repeated field declared packed or unpacked, from_bytes of the
\* packed and of the unpacked encoding of a list both succeed and yield the list.
PackedAgnostic ==
    res.op = "from_bytes" /\ {wire.type, res.cls} \subseteq {"Packed", "Unpacked"} =>
        res.err = "" /\ SameFields(Class(res.cls), res.m, wire.m)

\* the enum-typed items stored in the value v of the field f
EnumItems(f, v) ==
    IF f.kind = "Enum" THEN {v}
    ELSE IF f.kind = "Repeated" /\ f.elem = "Enum" THEN Range(v.items)
    ELSE IF f.kind = "Map" /\ f.elem = "Enum" THEN {p[2] : p \in Range(v.pairs)}
    ELSE {}

\* C8: decoding an enum-typed field (singular, repeated element, map value)
\* whose ordinal is no declared variant stores nothing for it, never the raw
\* integer, and from_bytes returns the message without raising.
UnknownEnumAbsent ==
    res.op = "from_bytes" /\ wire.type = "EnumTwin" /\ res.cls = "EnumMessage" =>
        /\ res.err = ""
        /\ \A f \in Range(Class(res.cls).fields) :
              f.name \in DOMAIN res.m.data =>
                  EnumItems(f, res.m.data[f.name]) \subseteq EnumVariants(f.of)


(***************************************************************************)
(* The integer field classes applied to one value: encode_value, and       *)
(* decode of what it returned.                                             *)
(***************************************************************************)
\* the field classes whose encode_value is Int.encode_value
IntVarintKinds == {"Int32", "Int64", "UInt32", "UInt64"}

\* kind(number=1)
IntField(kind) == Fld("value", 1, kind, FALSE, None)

\* field.decode(io.BytesIO(field.encode_value(cin))), for a value that
\* field.validate_value accepts
IntRoundTrip(kind) ==
    /\ cout.op = "none"
    /\ ValidScalar(IntField(kind), cin)
    /\ cout' = [op |-> "int", kind |-> kind, bytes |-> ScalarBytes(IntField(kind), cin),
                dec |-> DecodeValue(IntField(kind), ScalarBytes(IntField(kind), cin), 1, TRUE)]
    /\ UNCHANGED <<msg, writes, lastop, wire, res, cin>>

IntInit == CodecInit

IntNext == \E kind \in IntVarintKinds : IntRoundTrip(kind)

SpecInt == IntInit /\ [][IntNext]_vars

\* C11: Int32 and Int64 encode a negative v as the varint of v + 2^64, ten
\* bytes long, and decode(encode_value(v)) is v for every v that
\* validate_value of Int32, Int64, UInt32 and UInt64 accepts.
IntTwosComplement ==
    cout.op = "int" =>
        /\ cout.dec.err = ""
        /\ cout.dec.val = cin
        /\ cout.dec.pos = Len(cout.bytes) + 1
        /\ Lt(cin, Zero) =>
              /\ cout.bytes = encode_varint(Add(cin, Pow2(64)))
              /\ Len(cout.bytes) = VarintMaxBytes

\* the most negative value of Int64 has been encoded in ten bytes and read back
IntWitness ==
    /\ cout.op = "int"
    /\ cout.kind = "Int64"
    /\ cin = MIN_INT64
    /\ Len(cout.bytes) = VarintMaxBytes
    /\ cout.dec.val = cin

(***************************************************************************)
(* Construction of a field: Field.__init__, Repeated.__init__ and          *)
(* MapField.__init__ (protox/fields.py).  A constructor returns the        *)
(* exception it raises, "" for none.                                       *)
(***************************************************************************)
\* a valid field number is below 2 ** MaxNumberBits
MaxNumberBits == 29

\* range(ReservedFirst, ReservedEnd) is reserved for the protobuf implementation
ReservedFirst == 19000

ReservedEnd == 20000

\* _validate_field_number without the reserved range: a mutant
validate_field_number_unreserved(number) ==
    IF ~(Le(One, number) /\ Lt(number, Pow2(MaxNumberBits))) THEN "FieldValidationError" ELSE ""

\* Field._validate_field_number
validate_field_number(number) ==
    IF ~(Le(One, number) /\ Lt(number, Pow2(MaxNumberBits)))
       \/ (Le(I(ReservedFirst), number) /\ Lt(number, I(ReservedEnd)))
    THEN "FieldValidationError"
    ELSE ""

\* the field classes that Field.__init__ constructs without a check of their own
PlainKinds ==
    IntKinds \cup {"Bool", "Bytes", "String", "Float", "Double", "Enum", "Message"}

\* Repeated(of_type, number=number, packed=packed): a packed message is
\* refused, then of_type(number=number) and Field.__init__ validate the number
RepeatedInit(of_type, number, packed) ==
    IF of_type = "Message" /\ packed THEN "FieldValidationError"
    ELSE validate_field_number(number)

\* MapField.valid_key_fields with Bytes admitted: a mutant
valid_key_fields_and_bytes ==
    {"Int32", "Int64", "SInt32", "SInt64", "UInt32", "UInt64", "Fixed32", "Fixed64",
     "SFixed32", "SFixed64", "String", "Bool", "Bytes"}

\* MapField.valid_key_fields
valid_key_fields ==
    {"Int32", "Int64", "SInt32", "SInt64", "UInt32", "UInt64", "Fixed32", "Fixed64",
     "SFixed32", "SFixed64", "String", "Bool"}

\* MapField(key, value, number=number): the key type is checked first, then
\* Field.__init__ validates the number; key(number=1, required=True) and the
\* value field of number 2 are constructed behind it
MapFieldInit(key, value, number) ==
    IF key \notin valid_key_fields THEN "TypeError"
    ELSE IF validate_field_number(number) # "" THEN validate_field_number(number)
    ELSE IF validate_field_number(One) # "" THEN validate_field_number(One)
    ELSE validate_field_number(I(2))

\* the numbers given to a constructor
NumberInputs ==
    CodecInputs \cup
    {I(n) : n \in {ReservedFirst - 1, ReservedFirst, ReservedFirst + 500, ReservedEnd - 1,
                   ReservedEnd}}

\* the types given as the value of a map
MapValueTypes == {"Int32", "String", "Enum", "Message"}

Constructed(cls, args, err) == [op |-> "field", cls |-> cls, args |-> args, err |-> err]

\* kind(number=cin)
FieldNew(kind) ==
    /\ cout.op = "none"
    /\ cout' = Constructed(kind, <<>>, validate_field_number(cin))
    /\ UNCHANGED <<msg, writes, lastop, wire, res, cin>>

\* Repeated(of_type, number=cin, packed=packed)
RepeatedNew(of_type, packed) ==
    /\ cout.op = "none"
    /\ cout' = Constructed("Repeated", <<of_type, packed>>, RepeatedInit(of_type, cin, packed))
    /\ UNCHANGED <<msg, writes, lastop, wire, res, cin>>

\* MapField(key, value, number=cin)
MapFieldNew(key, value) ==
    /\ cout.op = "none"
    /\ cout' = Constructed("Map", <<key, value>>, MapFieldInit(key, value, cin))
    /\ UNCHANGED <<msg, writes, lastop, wire, res, cin>>

FieldInit ==
    /\ cin \in NumberInputs
    /\ cout = NoCall
    /\ msg = Idle
    /\ writes = 0
    /\ lastop = Idle
    /\ wire = Idle
    /\ res = Idle

FieldNext ==
    \/ \E kind \in PlainKinds : FieldNew(kind)
    \/ \E of_type \in PlainKinds : \E packed \in BOOLEAN : RepeatedNew(of_type, packed)
    \/ \E key \in PlainKinds : \E value \in MapValueTypes : MapFieldNew(key, value)

SpecField == FieldInit /\ [][FieldNext]_vars

\* the number n is in [1, 2^29 - 1] and not in [19000, 19999]
NumberAllowed(n) ==
    /\ ~n.neg
    /\ n.bits # <<>>
    /\ Len(n.bits) <= MaxNumberBits
    /\ BitsVal(n.bits) \notin ReservedFirst..(ReservedEnd - 1)

\* the constructor was given types it accepts: no packed message, a valid key
TypesAccepted ==
    /\ cout.op = "field"
    /\ cout.cls = "Repeated" => ~(cout.args[1] = "Message" /\ cout.args[2])
    /\ cout.cls = "Map" => cout.args[1] \in valid_key_fields

\* C12: constructing a field with a number that is not in [1, 2^29 - 1] or
\* that lies in [19000, 19999] fails with FieldValidationError, and
\* construction succeeds for every other number.
FieldNumberChecked ==
    TypesAccepted =>
        /\ cout.err \in {"", "FieldValidationError"}
        /\ cout.err = "" <=> NumberAllowed(cin)

\* a field was refused for a number of the reserved range
FieldNumberWitness ==
    TypesAccepted /\ cin = I(ReservedEnd - 1) /\ cout.err = "FieldValidationError"

\* C15: a MapField is constructed for each of the twelve key types Int32 ..
\* Bool, and its construction fails for a Float, Double, Bytes, enum or
\* message key type.
MapKeyChecked ==
    cout.op = "field" /\ cout.cls = "Map" /\ NumberAllowed(cin) =>
        cout.err = (IF cout.args[1] \in {"Float", "Double", "Bytes", "Enum", "Message"}
                    THEN "TypeError" ELSE "")

\* a MapField with a Bytes key and a valid number was refused
MapKeyWitness ==
    /\ cout.op = "field"
    /\ cout.cls = "Map"
    /\ cout.args[1] = "Bytes"
    /\ NumberAllowed(cin)
    /\ cout.err = "TypeError"

(***************************************************************************)
(* Registration of fields: the class statement (MessageMeta.__new__) and   *)
(* define_fields on the class it made.  Here msg is the message type, with *)
(* its tables _field_by_name and _field_by_number (pairs, in insertion     *)
(* order) and its set _required_fields, and lastop the last statement run. *)
(***************************************************************************)
\* fields in the body of a class statement
MaxBody == 2

\* define_fields calls made on a class
MaxDefine == 2

\* the fields given to a class body or to define_fields: Int32(number=..., default=...)
FieldPool ==
    {Fld("", number, "Int32", FALSE, default) :
        number \in 1..2, default \in {None, I(5), PyStr(<<>>)}}

\* the bodies of a class statement: attributes of distinct names
Bodies ==
    {q \in SeqsUpTo({"x", "y"} \X FieldPool, MaxBody) :
        \A i, j \in 1..Len(q) : q[i][1] = q[j][1] => i = j}

\* a message type as MessageMeta.__new__ leaves it before define_fields
NewType == [k |-> "type", by_name |-> <<>>, by_number |-> <<>>, required |-> {}]

\* MessageMeta._collect_fields from the attribute i of the body on: the
\* exception raised, "" for none
RECURSIVE collect_fields(_, _, _)
collect_fields(body, i, field_numbers) ==
    IF i > Len(body) THEN ""
    ELSE IF body[i][2].number \in field_numbers THEN "FieldValidationError"
    ELSE IF body[i][2].default # None /\ ~validate_value(body[i][2], body[i][2].default)
    THEN "FieldValidationError"
    ELSE collect_fields(body, i + 1, field_numbers \cup {body[i][2].number})

\* _add_field_to_message, for a field that is in no one_of
add_field_to_message(message_type, name, field) ==
    [message_type EXCEPT
        !.by_name = DictSet(@, name, [field EXCEPT !.name = name]),
        !.by_number = DictSet(@, field.number, [field EXCEPT !.name = name]),
        !.required = IF field.required /\ field.default = None THEN @ \cup {name} ELSE @]

\* define_fields(message_type, **kwargs), from the keyword i on
RECURSIVE define_fields(_, _, _)
define_fields(message_type, kwargs, i) ==
    IF i > Len(kwargs) THEN message_type
    ELSE define_fields(add_field_to_message(message_type, kwargs[i][1], kwargs[i][2]),
                       kwargs, i + 1)

\* class T(Message): body
ClassStatement(body) ==
    /\ msg.k = "none"
    /\ lastop' = [op |-> "class", fields |-> body, err |-> collect_fields(body, 1, {})]
    /\ msg' = IF lastop'.err # "" THEN [k |-> "failed"] ELSE define_fields(NewType, body, 1)
    /\ writes' = 0
    /\ UNCHANGED <<wire, res, cin, cout>>

\* define_fields(T, name=field)
DefineFields(name, field) ==
    /\ msg.k = "type"
    /\ writes < MaxDefine
    /\ writes' = writes + 1
    /\ lastop' = [op |-> "define", fields |-> << <<name, field>> >>, err |-> "",
                  numbers |-> {p[2].number : p \in Range(msg.by_name)}]
    /\ msg' = define_fields(msg, << <<name, field>> >>, 1)
    /\ UNCHANGED <<wire, res, cin, cout>>

DefineInit ==
    /\ msg = None
    /\ writes = 0
    /\ lastop = Idle
    /\ wire = Idle
    /\ res = Idle
    /\ cin = Zero
    /\ cout = NoCall

DefineNext ==
    \/ \E body \in Bodies : ClassStatement(body)
    \/ \E name \in {"x", "y"} : \E field \in FieldPool : DefineFields(name, field)

SpecDefine == DefineInit /\ [][DefineNext]_vars

\* the fields of a table
Registered(table) == {p[2] : p \in Range(table)}

\* C13: after the class body and after any sequence of define_fields calls no
\* two registered fields share a field number, the by-number index and the
\* by-name table hold the same fields, and registering a second field with a
\* number in use fails with FieldValidationError.
UniqueNumbers ==
    /\ msg.k = "type" =>
          /\ \A f, g \in Registered(msg.by_name) : f.number = g.number => f = g
          /\ Registered(msg.by_number) = Registered(msg.by_name)
    /\ lastop.op = "define" /\ lastop.fields[1][2].number \in lastop.numbers =>
          lastop.err = "FieldValidationError"

\* C14: registering a field whose non-null default does not pass its
\* validate_value fails with FieldValidationError, in the class body and
\* through define_fields; every registered non-null default validates.
DefaultsValidate ==
    /\ msg.k = "type" =>
          \A f \in Registered(msg.by_name) : f.default # None => validate_value(f, f.default)
    /\ lastop.op \in {"class", "define"} =>
          \A i \in 1..Len(lastop.fields) :
              (lastop.fields[i][2].default # None
               /\ ~validate_value(lastop.fields[i][2], lastop.fields[i][2].default))
                  => lastop.err = "FieldValidationError"

(***************************************************************************)
(* Mutation of the list of a repeated field and of the dict of a map       *)
(* field through the collection itself (protox/validated_list.py,          *)
(* protox/validated_dict.py).  ValidatedList overrides append, extend and  *)
(* __setitem__ of list, ValidatedDict overrides __setitem__ of dict; every *)
(* other method is the one of list and of dict.                            *)
(***************************************************************************)
\* mutations made on the collections of an instance
MaxMutations == 2

\* what a method of a collection made of it: the exception raised and the items after it
Mutated(err, items) == [err |-> err, items |-> items]

\* ValidatedList.append
list_append(field, items, x) ==
    IF ~ValidScalar(field, x) THEN Mutated("ValueError", items)
    ELSE Mutated("", Append(items, x))

\* ValidatedList.extend: every item is validated before list.extend runs
list_extend(field, items, iterable) ==
    IF \E x \in Range(iterable) : ~ValidScalar(field, x) THEN Mutated("ValueError", items)
    ELSE Mutated("", items \o iterable)

\* ValidatedList.__setitem__ with an index of the list
list_setitem(field, items, index, value) ==
    IF ~ValidScalar(field, value) THEN Mutated("ValueError", items)
    ELSE Mutated("", [items EXCEPT ![index] = value])

\* ValidatedList.__setitem__ with the slice [:stop]
list_setslice(field, items, stop, value) ==
    IF \E x \in Range(value) : ~ValidScalar(field, x) THEN Mutated("ValueError", items)
    ELSE Mutated("", value \o SubSeq(items, stop + 1, Len(items)))

\* list.insert(0, x): ValidatedList does not override it
list_insert(field, items, x) == Mutated("", <<x>> \o items)

\* list.__iadd__: ValidatedList does not override it, and list.__iadd__
\* does not call the extend of the subclass
list_iadd(field, items, iterable) == Mutated("", items \o iterable)

\* ValidatedDict.__setitem__
dict_setitem(f, pairs, key, value) ==
    IF ~ValidScalar(KeyField(f), key) \/ ~ValidScalar(ValueField(f), value)
    THEN Mutated("ValueError", pairs)
    ELSE Mutated("", DictSet(pairs, key, value))

\* dict.update({key: value}): ValidatedDict does not override it, and
\* dict.update does not call the __setitem__ of the subclass
dict_update(f, pairs, key, value) == Mutated("", DictSet(pairs, key, value))

\* dict.setdefault(key, value): ValidatedDict does not override it
dict_setdefault(f, pairs, key, value) ==
    IF PairIndex(pairs, key, 1) # 0 THEN Mutated("", pairs)
    ELSE Mutated("", DictSet(pairs, key, value))

\* the values handed to a mutation of the collection of f: those its field
\* accepts and one it rejects
ItemInputs(f) == Samples(f) \cup {BadValue(f)}

\* the instance after getattr(msg, name) and the method, whose outcome is r;
\* carried tells whether a value handed to the method fails validate_value
MutateDone(op, name, carried, r) ==
    [op |-> op, name |-> name, carried |-> carried, err |-> r.err, items |-> r.items]

\* the repeated fields and the map fields of the class of msg
ListFields == {f \in Range(Class(msg.type).fields) : f.kind = "Repeated"}

DictFields == {f \in Range(Class(msg.type).fields) : f.kind = "Map"}

\* the items of msg.name, the empty list the getter stores when it is unset
ItemsOf(f) == GetAttr(Class(msg.type), msg, f.name).val.items

PairsOf(f) == GetAttr(Class(msg.type), msg, f.name).val.pairs

\* one mutation of the list of the field f was made with outcome done
ListStep(f, done) ==
    /\ writes < MaxMutations
    /\ lastop' = done
    /\ writes' = writes + 1
    /\ msg' = [msg EXCEPT !.data = Put(msg.data, f.name, PyList(lastop'.items))]
    /\ UNCHANGED <<wire, res, cin, cout>>

DictStep(f, done) ==
    /\ writes < MaxMutations
    /\ lastop' = done
    /\ writes' = writes + 1
    /\ msg' = [msg EXCEPT !.data = Put(msg.data, f.name, PyDict(lastop'.items))]
    /\ UNCHANGED <<wire, res, cin, cout>>

\* msg.name.append(x)
ListAppend(f, x) ==
    ListStep(f, MutateDone("append", f.name, ~ValidScalar(ElemField(f), x),
                            list_append(ElemField(f), ItemsOf(f), x)))

\* msg.name.extend(xs)
ListExtend(f, xs) ==
    ListStep(f, MutateDone("extend", f.name, \E x \in Range(xs) : ~ValidScalar(ElemField(f), x),
                            list_extend(ElemField(f), ItemsOf(f), xs)))

\* msg.name[index] = x
ListSetItem(f, index, x) ==
    /\ index \in 1..Len(ItemsOf(f))
    /\ ListStep(f, MutateDone("setitem", f.name, ~ValidScalar(ElemField(f), x),
                            list_setitem(ElemField(f), ItemsOf(f), index, x)))

\* msg.name[:1] = xs
ListSetSlice(f, xs) ==
    /\ ItemsOf(f) # <<>>
    /\ ListStep(f, MutateDone("setslice", f.name,
                            \E x \in Range(xs) : ~ValidScalar(ElemField(f), x),
                            list_setslice(ElemField(f), ItemsOf(f), 1, xs)))

\* msg.name.insert(0, x)
ListInsert(f, x) ==
    ListStep(f, MutateDone("insert", f.name, ~ValidScalar(ElemField(f), x),
                            list_insert(ElemField(f), ItemsOf(f), x)))

\* items = msg.name; items += xs
ListIAdd(f, xs) ==
    ListStep(f, MutateDone("iadd", f.name, \E x \in Range(xs) : ~ValidScalar(ElemField(f), x),
                            list_iadd(ElemField(f), ItemsOf(f), xs)))

\* a key or a value fails the validate_value of its field
BadEntry(f, key, value) ==
    ~ValidScalar(KeyField(f), key) \/ ~ValidScalar(ValueField(f), value)

\* msg.name[key] = value
DictSetItem(f, key, value) ==
    DictStep(f, MutateDone("dict_setitem", f.name, BadEntry(f, key, value),
                            dict_setitem(f, PairsOf(f), key, value)))

\* msg.name.update({key: value})
DictUpdate(f, key, value) ==
    DictStep(f, MutateDone("update", f.name, BadEntry(f, key, value),
                            dict_update(f, PairsOf(f), key, value)))

\* msg.name.setdefault(key, value)
DictSetDefault(f, key, value) ==
    DictStep(f, MutateDone("setdefault", f.name, BadEntry(f, key, value),
                            dict_setdefault(f, PairsOf(f), key, value)))

\* an instance with repeated fields, and one with a map field
CollectionInit ==
    /\ msg \in {PyMsg("Unpacked", Empty, Empty), PyMsg("EnumMessage", Empty, Empty)}
    /\ writes = 0
    /\ lastop = Idle
    /\ wire = Idle
    /\ res = Idle
    /\ cin = Zero
    /\ cout = NoCall

CollectionNext ==
    \/ \E f \in ListFields : \E x \in ItemInputs(ElemField(f)) : ListAppend(f, x)
    \/ \E f \in ListFields : \E xs \in SeqsUpTo(ItemInputs(ElemField(f)), MaxItems) :
          ListExtend(f, xs)
    \/ \E f \in ListFields : \E index \in 1..MaxItems : \E x \in ItemInputs(ElemField(f)) :
          ListSetItem(f, index, x)
    \/ \E f \in ListFields : \E xs \in SeqsUpTo(ItemInputs(ElemField(f)), MaxItems) :
          ListSetSlice(f, xs)
    \/ \E f \in ListFields : \E x \in ItemInputs(ElemField(f)) : ListInsert(f, x)
    \/ \E f \in ListFields : \E xs \in SeqsUpTo(ItemInputs(ElemField(f)), MaxItems) :
          ListIAdd(f, xs)
    \/ \E f \in DictFields : \E key \in ItemInputs(KeyField(f)) :
          \E value \in ItemInputs(ValueField(f)) : DictSetItem(f, key, value)
    \/ \E f \in DictFields : \E key \in ItemInputs(KeyField(f)) :
          \E value \in ItemInputs(ValueField(f)) : DictUpdate(f, key, value)
    \/ \E f \in DictFields : \E key \in ItemInputs(KeyField(f)) :
          \E value \in ItemInputs(ValueField(f)) : DictSetDefault(f, key, value)

SpecCollection == CollectionInit /\ [][CollectionNext]_vars

\* every element of the lists and every key and value of the dicts of m
\* passes the validate_value of its field
AllValid(m) ==
    \A f \in Range(Class(m.type).fields) :
        f.name \in DOMAIN m.data =>
            IF f.kind = "Repeated"
            THEN \A x \in Range(m.data[f.name].items) : ValidScalar(ElemField(f), x)
            ELSE IF f.kind = "Map"
            THEN \A p \in Range(m.data[f.name].pairs) : ~BadEntry(f, p[1], p[2])
            ELSE TRUE

\* C16: after any sequence of mutations of the list of a repeated field
\* (append, extend, index and slice assignment, insert, +=) or of the dict of
\* a map field (item assignment, update, setdefault) every element, key and
\* value passes the validate_value of its field, and a mutation that carries
\* an invalid value raises ValueError instead of storing it.
CollectionsValidated ==
    /\ msg.k = "msg" => AllValid(msg)
    /\ lastop.op \in {"append", "extend", "setitem", "setslice", "insert", "iadd",
                      "dict_setitem", "update", "setdefault"}
       /\ lastop.carried => lastop.err = "ValueError"

(***************************************************************************)
(* Comparison of two instances (Message.__eq__, Message.__ne__).           *)
(***************************************************************************)
\* not e, where e is "T", "F" or "E" (the exception goes through)
PyNot(e) == IF e = "T" THEN "F" ELSE IF e = "F" THEN "T" ELSE e

\* a != b (Message.__ne__)
PyNe(a, b) ==
    IF ~(b.k = "msg" /\ a.type = b.type) THEN "E" ELSE PyNot(PyEq(a, b))

\* the classes of the compared instances
EqTypes == {"User", "UserV2", "Defaults", "OneOfDefault", "Outer"}

\* the instances a constructor call of these classes returns
Operands ==
    {w.m : w \in {v \in UNION {{New(Class(t), kw) : kw \in Kwargs(Class(t))} : t \in EqTypes} :
                     v.err = ""}}

\* what a comparison made of its operands
Compared(op, val) == [op |-> op, val |-> val]

\* cin[1] == cin[2]
Eq ==
    /\ cout.op = "none"
    /\ cout' = Compared("eq", PyEq(cin[1], cin[2]))
    /\ UNCHANGED <<msg, writes, lastop, wire, res, cin>>

\* cin[1] != cin[2]
Ne ==
    /\ cout.op = "none"
    /\ cout' = Compared("ne", PyNe(cin[1], cin[2]))
    /\ UNCHANGED <<msg, writes, lastop, wire, res, cin>>

EqInit ==
    /\ cin \in Operands \X Operands
    /\ cout = NoCall
    /\ msg = None
    /\ writes = 0
    /\ lastop = Idle
    /\ wire = Idle
    /\ res = Idle

EqNext == Eq \/ Ne

SpecEq == EqInit /\ [][EqNext]_vars

\* a and b are of one message type and every declared field reads the same
\* through its accessor (the stored value, or the default when unset)
SameTypeAndValues(a, b) ==
    /\ a.type = b.type
    /\ \A f \in Range(Class(a.type).fields) :
           GetAttr(Class(a.type), a, f.name).val = GetAttr(Class(b.type), b, f.name).val

\* C17: m1 == m2 evaluates to true exactly when both have the same message
\* type and every declared field reads equal through its accessor, and to
\* false in every other case, operands of different types included; m1 != m2
\* is its negation.
EqualityTotal ==
    /\ cout.op = "eq" =>
           cout.val = (IF SameTypeAndValues(cin[1], cin[2]) THEN "T" ELSE "F")
    /\ cout.op = "ne" =>
           cout.val = (IF SameTypeAndValues(cin[1], cin[2]) THEN "F" ELSE "T")

(***************************************************************************)
(* from_bytes on an input that stops early: what to_bytes returned, cut    *)
(* after its first n bytes.  Wide has a field of every wire shape: a tag   *)
(* of two bytes, a nested message without required fields, a fixed-width   *)
(* value, a string, a packed block and a map.                              *)
(***************************************************************************)
\* the classes of the instances encoded
TruncTypes == {"Wide", "Outer"}

\* the positions of buf, from pos on, at which a field of the message ends
RECURSIVE FieldEnds(_, _)
FieldEnds(buf, pos) ==
    With(decode_header(buf, pos),
         LAMBDA h :
             IF h.err # "" THEN {}
             ELSE With(SkipField(h.val.wire_type, buf, h.pos),
                       LAMBDA r : IF r.err # "" THEN {}
                                  ELSE {r.pos - 1} \cup FieldEnds(buf, r.pos)))

\* cls.from_bytes(data[:n]), data being what to_bytes returned
FromPrefix(n) ==
    /\ wire.op = "to_stream"
    /\ wire.err = ""
    /\ lastop.op = "to_stream"
    /\ res' = Got(wire.type, from_stream(Class(wire.type), SubSeq(wire.bytes, 1, n), TRUE))
    /\ lastop' = [op |-> "from_prefix", n |-> n]
    /\ UNCHANGED <<msg, writes, wire, cin, cout>>

\* msg.to_bytes(), once
TruncEncode ==
    /\ wire.op = "none"
    /\ ToStream

TruncInit ==
    /\ \E type \in TruncTypes : \E kwargs \in Kwargs(Class(type)) :
           /\ New(Class(type), kwargs).err = ""
           /\ msg = New(Class(type), kwargs).m
    /\ writes = 0
    /\ lastop = Idle
    /\ wire = Idle
    /\ res = Idle
    /\ cin = Zero
    /\ cout = NoCall

\* the lengths at which what to_bytes returned is cut: none before it returned
PrefixLengths ==
    IF wire.op = "to_stream" /\ wire.err = "" THEN 0..Len(wire.bytes) ELSE {}

TruncNext ==
    \/ TruncEncode
    \/ \E n \in PrefixLengths : FromPrefix(n)

SpecTrunc == TruncInit /\ [][TruncNext]_vars

\* the input of the last from_bytes ends in the middle of a field
EndsInsideField ==
    /\ lastop.op = "from_prefix"
    /\ lastop.n \notin {0} \cup FieldEnds(wire.bytes, 1)

\* C18: a strict from_bytes never returns a message for an input that ends
\* in the middle of a field (inside a tag varint, a value varint, a
\* fixed-width value or a length-delimited payload shorter than its
\* advertised length): it raises a decode error.
TruncatedRaises == EndsInsideField => res.err = "MessageDecodeError"

\* the group g of the encoded instance came back: which_one_of reports the
\* member it reported before to_bytes, that member reads the value it had,
\* and no other member of g is stored
OneOfCameBack(g) ==
    /\ res.err = ""
    /\ which_one_of(res.m, g.name) = which_one_of(wire.m, g.name)
    /\ GetAttr(Class(wire.type), res.m, which_one_of(wire.m, g.name)).val
           = GetAttr(Class(wire.type), wire.m, which_one_of(wire.m, g.name)).val
    /\ Present(res.m, g) = {which_one_of(wire.m, g.name)}

\* C19: for every message m with a one-of group g of which a member was
\* written, m2 = T.from_bytes(m.to_bytes()) has m2.which_one_of(g) equal to
\* m.which_one_of(g), the winning member reads in m2 the value it has in m,
\* and every other member of g is absent in m2, for members with and
\* without declared defaults.
OneOfRoundTrip ==
    ReadBack =>
        \A g \in Range(Class(wire.type).one_ofs) :
            which_one_of(wire.m, g.name) # "None" => OneOfCameBack(g)

(***************************************************************************)
(* The names of the generated fields: to_snake_case, RESERVED_NAMES and    *)
(* FieldMangler of protox/plugin/common.py, and resolve_field_name of      *)
(* protox/plugin/protobuf_code_generator.py.                               *)
(*                                                                         *)
(* A name is the sequence of its characters.  msg is the list of the       *)
(* message descriptors of the file (nested ones included: write_message    *)
(* visits them with the same generator), wire holds _field_manglers and    *)
(* lastop the last call of resolve_field_name.                             *)
(***************************************************************************)

UpperChars == {"A", "S"}

LowerChars == {"a", "s"}

DigitChars == {"0", "1", "2", "3", "4", "5", "6", "7", "8", "9"}

\* str.lower() of one character
lower(c) == CASE c = "A" -> "a" [] c = "S" -> "s" [] OTHER -> c

\* the last character of the run [a-z]+ that starts at j
LowerRunEnd(s, j) ==
    CHOOSE k \in j..Len(s) :
        /\ \A x \in j..k : s[x] \in LowerChars
        /\ k = Len(s) \/ s[k + 1] \notin LowerChars

\* re.sub("(.)([A-Z][a-z]+)", r"\1_\2", s) from position i on: the matches
\* are found from the left and do not overlap
RECURSIVE re_sub_word(_, _)
re_sub_word(s, i) ==
    IF i > Len(s) THEN <<>>
    ELSE IF i + 2 <= Len(s) /\ s[i + 1] \in UpperChars /\ s[i + 2] \in LowerChars
    THEN <<s[i], "_">> \o SubSeq(s, i + 1, LowerRunEnd(s, i + 2))
             \o re_sub_word(s, LowerRunEnd(s, i + 2) + 1)
    ELSE <<s[i]>> \o re_sub_word(s, i + 1)

\* re.sub("([a-z0-9])([A-Z])", r"\1_\2", s) from position i on
RECURSIVE re_sub_hump(_, _)
re_sub_hump(s, i) ==
    IF i > Len(s) THEN <<>>
    ELSE IF i + 1 <= Len(s) /\ s[i] \in LowerChars \cup DigitChars /\ s[i + 1] \in UpperChars
    THEN <<s[i], "_", s[i + 1]>> \o re_sub_hump(s, i + 2)
    ELSE <<s[i]>> \o re_sub_hump(s, i + 1)

to_snake_case(name) ==
    [i \in 1..Len(re_sub_hump(re_sub_word(name, 1), 1)) |->
        lower(re_sub_hump(re_sub_word(name, 1), 1)[i])]

\* the names of RESERVED_NAMES that two letters spell (all of them keywords)
RESERVED_NAMES == {<<"a", "s">>, <<"i", "f">>, <<"i", "n">>, <<"i", "s">>, <<"o", "r">>}

\* str(n) of a counter
RECURSIVE Str(_)
Str(n) ==
    IF n < 10 THEN << <<"0", "1", "2", "3", "4", "5", "6", "7", "8", "9">>[n + 1] >>
    ELSE Str(n \div 10) \o Str(n % 10)

\* f'{name}_{counter}'
Suffixed(name, counter) == name \o <<"_">> \o counter

\* Counter.__getitem__: a missing key counts 0
CounterGet(counter, name) == IF name \in DOMAIN counter THEN counter[name] ELSE 0

\* the while loop of _mangle_name: the first counter from n on whose
\* suffixed name is not an original field name
RECURSIVE SkipTaken(_, _, _)
SkipTaken(fields, name, n) ==
    IF Suffixed(name, Str(n)) \in fields THEN SkipTaken(fields, name, n + 1) ELSE n

\* FieldMangler._mangle_name: the mangler after the call, and what it returns
mangle_name(self, name) ==
    [self |-> [self EXCEPT !.name_counter =
                   Put(@, name, SkipTaken(self.message_fields, name, CounterGet(@, name) + 1))],
     val |-> Suffixed(name,
                 IF SkipTaken(self.message_fields, name, CounterGet(self.name_counter, name) + 1) = 1
                 THEN <<>>
                 ELSE Str(SkipTaken(self.message_fields, name,
                                    CounterGet(self.name_counter, name) + 1)))]

\* FieldMangler._process_name
process_name(self, name) ==
    IF \/ to_snake_case(name) \in RESERVED_NAMES
       \/ to_snake_case(name) # name /\ to_snake_case(name) \in self.message_fields
    THEN [mangle_name(self, to_snake_case(name)).self EXCEPT !.mangled_names =
              Put(@, name, mangle_name(self, to_snake_case(name)).val)]
    ELSE [self EXCEPT !.mangled_names = Put(@, name, to_snake_case(name))]

\* for name in self._message_fields: self._process_name(name), the set
\* yielding its names in the given order
RECURSIVE ProcessAll(_, _)
ProcessAll(self, order) ==
    IF order = <<>> THEN self
    ELSE ProcessAll(process_name(self, Head(order)), Tail(order))

\* the orders in which a set can yield its elements: that of a set of str
\* changes with the hash seed of the interpreter
Orders(S) == {o \in [1..Cardinality(S) -> S] : Range(o) = S}

\* FieldMangler.__init__
FieldMangler(message, order) ==
    ProcessAll([message_fields |-> message.field,
                name_counter |-> [k \in {} |-> 0],
                mangled_names |-> [k \in {} |-> <<>>]], order)

\* FieldMangler.get
get(self, field) ==
    IF field \notin self.message_fields THEN [err |-> "ValueError", name |-> <<>>]
    ELSE [err |-> "", name |-> self.mangled_names[field]]

MaxFields == 2

MaxMessages == 2

\* field names around the stems s, as, a_s and a_ss
NamePool ==
    {<<"s">>, <<"S">>, <<"a", "S">>, <<"a", "_", "S">>, <<"a", "s">>,
     <<"a", "s", "_">>, <<"a", "s", "_", "1">>, <<"A", "S", "s">>}

MessageNames == {"Inner", "Outer"}

\* message.field by the names of the fields, which is all the generator
\* reads of it here: set(x.name for x in message.field)
FieldSets == {S \in SUBSET NamePool : Cardinality(S) \in 1..MaxFields}

Descriptors == [name : MessageNames, field : FieldSets]

\* self._field_manglers after resolve_field_name has looked the message up
Manglers(by, message, order) ==
    IF message.name \in DOMAIN by THEN by ELSE Put(by, message.name, FieldMangler(message, order))

\* ProtobufCodeGenerator.resolve_field_name(msg[i], field)
ResolveFieldName(i, field) ==
    /\ wire.op = "field_manglers"
    /\ \E order \in Orders(msg[i].field) :
           /\ wire' = [wire EXCEPT !.by = Manglers(@, msg[i], order)]
           /\ lastop' = [op |-> "resolve_field_name", message |-> i, field |-> field,
                         r |-> get(Manglers(wire.by, msg[i], order)[msg[i].name], field)]
    /\ UNCHANGED <<msg, writes, res, cin, cout>>

\* ProtobufCodeGenerator.__init__: no mangler yet
ManglerInit ==
    /\ msg \in UNION {[1..n -> Descriptors] : n \in 1..MaxMessages}
    /\ wire = [op |-> "field_manglers", by |-> [k \in {} |-> None]]
    /\ lastop = Idle
    /\ writes = 0
    /\ res = Idle
    /\ cin = Zero
    /\ cout = NoCall

ManglerNext ==
    \E i \in 1..Len(msg) : \E field \in msg[i].field : ResolveFieldName(i, field)

SpecMangler == ManglerInit /\ [][ManglerNext]_vars

\* the name the generator writes for a field of message i
Generated(i, field) == get(wire.by[msg[i].name], field)

\* C20: for every message descriptor, the generator's FieldMangler maps
\* distinct original field names to pairwise distinct generated names, none
\* of which is a reserved name and none of which equals the original name
\* of a different sibling field; and a generated name is returned for every
\* field of every message of the file.
MangledNamesSound ==
    lastop.op = "resolve_field_name" =>
        /\ lastop.r.err = ""
        /\ \A f \in msg[lastop.message].field :
               /\ Generated(lastop.message, f).err = ""
               /\ Generated(lastop.message, f).name \notin RESERVED_NAMES
               /\ \A g \in msg[lastop.message].field \ {f} :
                      /\ Generated(lastop.message, f).name # Generated(lastop.message, g).name
                      /\ Generated(lastop.message, f).name # g

(***************************************************************************)
(* The text of a generated module: ProtobufCodeGenerator.generate of       *)
(* protox/plugin/protobuf_code_generator.py, which main's CodeGenerator of *)
(* protox/plugin/__init__.py repeats with another write_define_fields and  *)
(* another FieldMangler.                                                   *)
(*                                                                         *)
(* A method is the list of the statements it runs, in the order in which   *)
(* it runs them; a statement writes one line, and the generator runs them  *)
(* until one raises.  A line of the buffer is what one call of             *)
(* StringBuffer.write appended: its indentation, the kind of the statement *)
(* and the name written in it.                                             *)
(* msg is the message_type of the FileDescriptorProto, wire the generator  *)
(* and lastop the statement of generate that runs next.                    *)
(***************************************************************************)

\* StringBuffer.write at the indentation ind
w(ind, kind, name) == [op |-> "write", indent |-> ind, kind |-> kind, name |-> name]

\* StringBuffer.nl
nl == w(0, "nl", <<>>)

\* w(f'{self.resolve_field_name(message, field.name)}...'), with
\* resolve_field_type(field) before it if typed
WriteName(ind, kind, message, field, typed) ==
    [op |-> "resolve", indent |-> ind, kind |-> kind, message |-> message, field |-> field,
     typed |-> typed]

is_map_message(message) == message.map_entry

is_empty_message(message) ==
    ~(message.nested_type # <<>> \/ message.field # <<>> \/ message.enum_type # <<>>)

\* what FieldMangler reads of a message: its name and the names of its fields
Named(message) ==
    [name |-> message.name, field |-> {message.field[i].name : i \in 1..Len(message.field)}]

\* the names of a set in the order in which the interpreter's sets yield them
Yielded(S, order) == SelectSeq(order, LAMBDA x : x \in S)

\* FieldMangler._mangle_name of plugin/__init__.py: the counter is always written
mangle_name_counted(self, name) ==
    [self |-> [self EXCEPT !.name_counter =
                   Put(@, name, SkipTaken(self.message_fields, name, CounterGet(@, name) + 1))],
     val |-> Suffixed(name, Str(SkipTaken(self.message_fields, name,
                                          CounterGet(self.name_counter, name) + 1)))]

\* FieldMangler._process_name of plugin/__init__.py
process_name_flag(self, name, snake_case_flag) ==
    With(IF snake_case_flag THEN to_snake_case(name) ELSE name,
         LAMBDA py_name :
             IF py_name \in RESERVED_NAMES \/ (py_name # name /\ py_name \in self.message_fields)
             THEN [mangle_name_counted(self, py_name).self EXCEPT !.mangled_names =
                       Put(@, name, mangle_name_counted(self, py_name).val)]
             ELSE [self EXCEPT !.mangled_names = Put(@, name, py_name)])

RECURSIVE ProcessAllFlag(_, _, _)
ProcessAllFlag(self, order, snake_case_flag) ==
    IF order = <<>> THEN self
    ELSE ProcessAllFlag(process_name_flag(self, Head(order), snake_case_flag), Tail(order),
                        snake_case_flag)

\* FieldMangler.__init__ of the class the generator uses
NewMangler(gen, message) ==
    IF gen.cls = "ProtobufCodeGenerator"
    THEN FieldMangler(Named(message), Yielded(Named(message).field, gen.order))
    ELSE ProcessAllFlag([message_fields |-> Named(message).field,
                         name_counter |-> [k \in {} |-> 0],
                         mangled_names |-> [k \in {} |-> <<>>]],
                        Yielded(Named(message).field, gen.order), gen.snake_case)

\* the first statement of the list that resolves a name of a message so named
FirstOf(statements, name) ==
    CHOOSE j \in 1..Len(statements) :
        /\ statements[j].op = "resolve" /\ statements[j].message.name = name
        /\ \A l \in 1..(j - 1) :
               ~(statements[l].op = "resolve" /\ statements[l].message.name = name)

\* self._field_manglers when every name of the statements has been looked
\* up: a new name has the mangler of the message that is the first to be
\* resolved under it
ManglersOf(self, statements) ==
    [n \in DOMAIN self.field_manglers
           \cup {statements[i].message.name :
                    i \in {j \in 1..Len(statements) : statements[j].op = "resolve"}} |->
        IF n \in DOMAIN self.field_manglers THEN self.field_manglers[n]
        ELSE NewMangler(self, statements[FirstOf(statements, n)].message)]

\* resolve_field_type raises for a group
TypeRaises(statement) ==
    statement.op = "resolve" /\ statement.typed /\ statement.field.type = "group"

\* what a statement raises, if the statements before it raised nothing
Raised(by, statement) ==
    IF statement.op # "resolve" THEN ""
    ELSE IF TypeRaises(statement) THEN "NotImplementedError"
    ELSE get(by[statement.message.name], statement.field.name).err

\* the first statement that raises, or the end of the list
Stop(raised) ==
    IF \A i \in 1..Len(raised) : raised[i] = "" THEN Len(raised) + 1
    ELSE CHOOSE i \in 1..Len(raised) :
             raised[i] # "" /\ \A j \in 1..(i - 1) : raised[j] = ""

\* the line a statement writes
Line(by, statement) ==
    [indent |-> statement.indent, kind |-> statement.kind,
     name |-> IF statement.op = "resolve"
              THEN get(by[statement.message.name], statement.field.name).name
              ELSE statement.name]

\* the names under which the statements up to the one that stops the run
\* looked a mangler up
LookedUp(statements, stop) ==
    {statements[i].message.name :
        i \in {j \in 1..Len(statements) :
                   j <= stop /\ statements[j].op = "resolve" /\ ~TypeRaises(statements[j])}}

\* the generator after it ran the statements
Run(self, statements) ==
    With(ManglersOf(self, statements), LAMBDA by :
    With([i \in 1..Len(statements) |-> Raised(by, statements[i])], LAMBDA raised :
    With(Stop(raised), LAMBDA stop :
        [self EXCEPT
            !.buffer = @ \o [i \in 1..(stop - 1) |-> Line(by, statements[i])],
            !.field_manglers =
                [n \in DOMAIN @ \cup LookedUp(statements, stop) |-> by[n]],
            !.err = IF stop > Len(statements) THEN "" ELSE raised[stop]])))

\* for field in message.field: one statement for each
WriteNames(ind, kind, message, typed) ==
    [i \in 1..Len(message.field) |-> WriteName(ind, kind, message, message.field[i], typed)]

write_init(ind, message) ==
    <<w(ind, "def __init__(", <<>>), w(ind + 1, "self,", <<>>), w(ind + 1, "*,", <<>>)>>
        \o WriteNames(ind + 1, "parameter", message, TRUE)
        \o <<w(ind, "):", <<>>), w(ind + 1, "super().__init__(", <<>>)>>
        \o WriteNames(ind + 2, "argument", message, FALSE)
        \o <<w(ind + 1, ")", <<>>)>>

\* the lists of a list of lists, one after the other
RECURSIVE Flat(_)
Flat(lists) == IF lists = <<>> THEN <<>> ELSE Head(lists) \o Flat(Tail(lists))

\* for enum_type in message.enum_type: write_enum, by its class statement, and nl()
WriteEnums(ind, enum_type) ==
    Flat([i \in 1..Len(enum_type) |-> <<w(ind, "enum", <<enum_type[i]>>), nl>>])

\* the messages of this model declare no one-of, and write_oneofs writes nothing
RECURSIVE write_message(_, _, _)
write_message(cls, ind, message) ==
    <<w(ind, "class", <<message.name>>)>>
        \o IF is_empty_message(message) THEN <<w(ind + 1, "pass", <<>>)>>
           ELSE WriteEnums(ind + 1, message.enum_type)
                \o Flat([i \in 1..Len(message.nested_type) |->
                            IF is_map_message(message.nested_type[i]) THEN <<>>
                            ELSE write_message(cls, ind + 1, message.nested_type[i]) \o <<nl>>])
                \o IF message.field = <<>> THEN <<>>
                   ELSE WriteNames(ind + 1, "field", message, TRUE)
                        \o <<nl>>
                        \o write_init(ind + 1, message)
                        \o IF cls = "ProtobufCodeGenerator" THEN <<nl>> ELSE <<>>

\* the statements of one define_fields call; the loop over the fields raises
\* for a group before it writes the name.  ProtobufCodeGenerator sets the
\* DESCRIPTOR of the class after the call.
DefineFieldsCall(cls, message, full_name) ==
    <<w(0, "protox.define_fields(", <<>>), w(1, "message", full_name)>>
        \o WriteNames(1, "field=", message, TRUE)
        \o <<w(0, ")", <<>>)>>
        \o IF cls = "ProtobufCodeGenerator"
           THEN <<w(0, ".DESCRIPTOR =", full_name),
                  w(0, ".DESCRIPTOR.file_descriptor =", full_name),
                  w(0, ".DESCRIPTOR.full_name =", full_name)>>
           ELSE <<>>

\* write_define_fields of ProtobufCodeGenerator: the nested messages that are
\* no map entries first, under the whole path; and of CodeGenerator
\* (plugin/__init__.py): nothing for a message without fields, else the call
\* and then every nested message, under the name of the message
RECURSIVE write_define_fields(_, _, _)
write_define_fields(cls, message, path) ==
    IF cls = "ProtobufCodeGenerator"
    THEN Flat([i \in 1..Len(message.nested_type) |->
                  IF is_map_message(message.nested_type[i]) THEN <<>>
                  ELSE write_define_fields(cls, message.nested_type[i], path \o <<message.name>>)])
             \o IF message.field = <<>> THEN <<>>
                ELSE DefineFieldsCall(cls, message, path \o <<message.name>>)
    ELSE IF message.field = <<>> THEN <<>>
    ELSE DefineFieldsCall(cls, message, path \o <<message.name>>)
             \o Flat([i \in 1..Len(message.nested_type) |->
                         write_define_fields(cls, message.nested_type[i], <<message.name>>)])

\* a generator just constructed: order is set while a statement runs
NewGenerator(cls, snake_case) ==
    [cls |-> cls, order |-> <<>>, snake_case |-> snake_case, buffer |-> <<>>,
     field_manglers |-> [k \in {} |-> None], err |-> ""]

\* the generator while a statement runs in an interpreter whose sets yield
\* names in the given order, and after it
Running(gen, order) == [gen EXCEPT !.order = order]

Ran(gen) == [gen EXCEPT !.order = <<>>]

FieldNamePool == {<<"s">>, <<"a", "S">>}

PluginNames == FieldNamePool \cup {<<"k", "e", "y">>, <<"v", "a", "l", "u", "e">>}

\* message.field of a message written in the .proto file
PlainFieldLists ==
    {<<>>, <<[name |-> <<"s">>, type |-> "group"]>>}
        \cup {<<[name |-> n, type |-> "int32"]>> : n \in FieldNamePool}

\* the entry message protoc makes for a map field
EntryMessage(name) ==
    [name |-> name,
     field |-> <<[name |-> <<"k", "e", "y">>, type |-> "string"],
                 [name |-> <<"v", "a", "l", "u", "e">>, type |-> "int32"]>>,
     nested_type |-> <<>>, enum_type |-> <<>>, map_entry |-> TRUE]

\* messages without nested messages
LeafMessages ==
    {[name |-> "Inner", field |-> f, nested_type |-> <<>>, enum_type |-> <<>>, map_entry |-> FALSE] :
         f \in PlainFieldLists}
    \cup {EntryMessage("SEntry")}

MaxNested == 1

\* lists of messages of one scope: their names are all different
Siblings(S, n) ==
    UNION {{o \in [1..k -> S] : \A i, j \in 1..k : i < j => o[i].name # o[j].name} : k \in 0..n}

\* the messages of a file: a map entry is always nested in the message that
\* has the map field
TopMessages ==
    {[name |-> n, field |-> f, nested_type |-> ns, enum_type |-> e, map_entry |-> FALSE] :
         n \in MessageNames, f \in PlainFieldLists, ns \in Siblings(LeafMessages, MaxNested),
         e \in {<<>>, <<"E">>}}

Files == Siblings(TopMessages, MaxMessages) \ {<<>>}

\* write_message(message_type) and nl(2) of the loop of generate
MessageStatements(cls, message) == write_message(cls, 0, message) \o <<nl>>

\* the statement of generate that runs next
At(op, i) == [op |-> op, i |-> i]

\* what runs after message i of a loop of generate
After(op, i, then) == IF i < Len(msg) THEN At(op, i + 1) ELSE then

\* generate: one message of the loop over self._proto_file.message_type;
\* ProtobufCodeGenerator has a statement between the two loops
WriteMessage ==
    /\ lastop.op = "write_message"
    /\ wire.err = ""
    /\ \E order \in Orders(PluginNames) :
           wire' = Ran(Run(Running(wire, order), MessageStatements(wire.cls, msg[lastop.i])))
    /\ lastop' = After("write_message", lastop.i,
                       IF wire.cls = "ProtobufCodeGenerator" THEN At("FILE_DESCRIPTOR", 0)
                       ELSE At("write_define_fields", 1))
    /\ UNCHANGED <<msg, writes, res, cin, cout>>

\* ProtobufCodeGenerator.generate: FILE_DESCRIPTOR = ... between the two loops
WriteFileDescriptor ==
    /\ lastop.op = "FILE_DESCRIPTOR"
    /\ wire.err = ""
    /\ wire' = Run(wire, <<w(0, "FILE_DESCRIPTOR =", <<>>)>>)
    /\ lastop' = At("write_define_fields", 1)
    /\ UNCHANGED <<msg, writes, res, cin, cout>>

\* generate: one message of the second loop
WriteDefineFields ==
    /\ lastop.op = "write_define_fields"
    /\ wire.err = ""
    /\ \E order \in Orders(PluginNames) :
           wire' = Ran(Run(Running(wire, order),
                           write_define_fields(wire.cls, msg[lastop.i], <<>>)))
    /\ lastop' = After("write_define_fields", lastop.i, At("read", 0))
    /\ UNCHANGED <<msg, writes, res, cin, cout>>

\* generate: the buffer is read and returned as the content of the file
ReturnFile ==
    /\ lastop.op = "read"
    /\ wire.err = ""
    /\ res' = [op |-> "generate", content |-> wire.buffer]
    /\ lastop' = At("return", 0)
    /\ UNCHANGED <<msg, writes, wire, cin, cout>>

\* the generator of protobuf_code_generator.py or the one main constructs
GenerateInit ==
    /\ msg \in Files
    /\ cin = Zero
    /\ wire \in {NewGenerator("ProtobufCodeGenerator", TRUE)}
                    \cup {NewGenerator("CodeGenerator", flag) : flag \in BOOLEAN}
    /\ lastop = At("write_message", 1)
    /\ writes = 0
    /\ res = Idle
    /\ cout = NoCall

GenerateNext == WriteMessage \/ WriteFileDescriptor \/ WriteDefineFields \/ ReturnFile

SpecGenerate == GenerateInit /\ [][GenerateNext]_vars

\* the messages of a list and of the messages nested in them, each with its
\* path of names
RECURSIVE Declared(_, _)
Declared(messages, path) ==
    UNION {{[path |-> path \o <<messages[i].name>>, message |-> messages[i]]}
               \cup Declared(messages[i].nested_type, path \o <<messages[i].name>>) :
           i \in 1..Len(messages)}

\* the class statement of line k declares the class of this path: the class
\* statements above it with less indentation are the classes it is nested in
RECURSIVE ClassPath(_, _)
ClassPath(buffer, k) ==
    IF buffer[k].indent = 0 THEN buffer[k].name
    ELSE ClassPath(buffer, CHOOSE j \in 1..(k - 1) :
                               /\ buffer[j].kind = "class"
                               /\ buffer[j].indent = buffer[k].indent - 1
                               /\ \A l \in (j + 1)..(k - 1) :
                                      ~(buffer[l].kind = "class" /\ buffer[l].indent = buffer[j].indent))
             \o buffer[k].name

ClassLines(buffer) == {k \in 1..Len(buffer) : buffer[k].kind = "class"}

\* the lines that name the message of a define_fields call
CallLines(buffer, path) ==
    {k \in 1..Len(buffer) : buffer[k].kind = "message" /\ buffer[k].name = path}

\* the text returned has one define_fields call for each message with a
\* field that is no map entry, and neither a call nor a class for a map entry
EachDefinedOnce(content) ==
    \A d \in Declared(msg, <<>>) :
        /\ ~d.message.map_entry /\ d.message.field # <<>> =>
               Cardinality(CallLines(content, d.path)) = 1
        /\ d.message.map_entry =>
               /\ CallLines(content, d.path) = {}
               /\ \A k \in ClassLines(content) : ClassPath(content, k) # d.path

\* C21: in the text emitted for one .proto file, every message class
\* declaration (top-level and nested) precedes the first define_fields call;
\* every message that is not a map entry and has at least one field gets
\* exactly one define_fields call; and a message whose options set map_entry
\* gets neither a class declaration nor a define_fields call.
DeclaredBeforeDefined ==
    /\ \A i, j \in 1..Len(wire.buffer) :
           wire.buffer[i].kind = "class" /\ wire.buffer[j].kind = "protox.define_fields(" => i < j
    /\ lastop.op = "return" => EachDefinedOnce(res.content)

(***************************************************************************)
(* main of protox/plugin/__init__.py, for a request that was parsed and    *)
(* names one file to generate: it constructs a CodeGenerator, calls its    *)
(* generate and writes the response.  cout is what the process has done    *)
(* when it ends: what it wrote to standard output and its exit status.     *)
(***************************************************************************)

\* main: response = CodeGeneratorResponse(file=response_files) is written to
\* standard output, and main returns
WriteResponse ==
    /\ lastop.op = "return"
    /\ cout.op = "none"
    /\ cout' = [op |-> "exit", status |-> 0, raised |-> "",
                stdout |-> << [error |-> "", file |-> << res.content >>] >>]
    /\ lastop' = At("exit", 0)
    /\ UNCHANGED <<msg, writes, wire, res, cin>>

\* a statement of generate raised: no statement of generate or of main
\* catches it, and the interpreter ends with the traceback and status 1
Uncaught ==
    /\ wire.err # ""
    /\ cout.op = "none"
    /\ cout' = [op |-> "exit", status |-> 1, raised |-> wire.err, stdout |-> <<>>]
    /\ lastop' = At("exit", 0)
    /\ UNCHANGED <<msg, writes, wire, res, cin>>

\* main has parsed the request and its parameter, and constructed the generator
MainInit ==
    /\ msg \in Files
    /\ cin = Zero
    /\ wire \in {NewGenerator("CodeGenerator", flag) : flag \in BOOLEAN}
    /\ lastop = At("write_message", 1)
    /\ writes = 0
    /\ res = Idle
    /\ cout = NoCall

MainNext == WriteMessage \/ WriteDefineFields \/ ReturnFile \/ WriteResponse \/ Uncaught

SpecMain == MainInit /\ [][MainNext]_vars

\* C22: when code generation raises an internal exception for a request that
\* was parsed, the plugin's main still writes exactly one
\* CodeGeneratorResponse to standard output whose error field carries the
\* diagnostic, and the process exits with status zero; no exception escapes
\* main.
ErrorsReported ==
    cout.op = "exit" /\ wire.err # "" =>
        /\ Len(cout.stdout) = 1
        /\ cout.stdout[1].error # ""
        /\ cout.status = 0
        /\ cout.raised = ""

(***************************************************************************)
(* A map field on the wire (MapField.decode and the MapField branch of     *)
(* Message.from_stream).  Any encoder may have written the message: the    *)
(* entries of the map come one by one, each behind the header of the       *)
(* field, with fields of other numbers between them, a key more than once  *)
(* and the two fields of an entry in either order.  wire holds what was    *)
(* written so far, res what from_bytes made of it.                         *)
(***************************************************************************)
MaxWireItems == 3

\* the map field of the class that is read
MapOfWide == FieldByName(Class("Wide"), "m")

MapKeys == {PyStr(<<>>), PyStr(<<107>>), PyStr(<<108>>)}

MapValues == {I(0), I(1)}

\* what an encoder writes between two entries: a field of another number
OtherFields == {[kind |-> "other", name |-> "s", value |-> PyStr(<<107>>)]}

WireItems ==
    [kind : {"entry"}, key : MapKeys, value : MapValues, value_first : BOOLEAN]
        \cup OtherFields

\* the bytes of one item: an entry is the header of the map field and the
\* length-prefixed bytes of a message with key = 1 and value = 2
ItemBytes(item) ==
    IF item.kind = "entry"
    THEN Header(MapOfWide) \o
         encode_bytes(IF item.value_first
                      THEN Encode(ValueField(MapOfWide), item.value).bytes
                               \o Encode(KeyField(MapOfWide), item.key).bytes
                      ELSE Encode(KeyField(MapOfWide), item.key).bytes
                               \o Encode(ValueField(MapOfWide), item.value).bytes)
    ELSE Encode(FieldByName(Class("Wide"), item.name), item.value).bytes

\* an encoder writes one more field
WireAppend(item) ==
    /\ wire.op = "wire"
    /\ res.op = "none"
    /\ Len(wire.items) < MaxWireItems
    /\ wire' = [wire EXCEPT !.items = Append(@, item), !.bytes = @ \o ItemBytes(item)]
    /\ UNCHANGED <<msg, writes, lastop, res, cin, cout>>

\* Wide.from_bytes(data)
MapFromBytes ==
    /\ wire.op = "wire"
    /\ res.op = "none"
    /\ res' = Got("Wide", from_stream(Class("Wide"), wire.bytes, TRUE))
    /\ lastop' = [op |-> "from_bytes"]
    /\ UNCHANGED <<msg, writes, wire, cin, cout>>

MapWireInit ==
    /\ msg = None
    /\ writes = 0
    /\ lastop = Idle
    /\ wire = [op |-> "wire", items |-> <<>>, bytes |-> <<>>]
    /\ res = Idle
    /\ cin = Zero
    /\ cout = NoCall

MapWireNext ==
    \/ \E item \in WireItems : WireAppend(item)
    \/ MapFromBytes

SpecMapWire == MapWireInit /\ [][MapWireNext]_vars

\* the positions of the entries on the wire that have the key
EntriesOf(items, key) ==
    {i \in 1..Len(items) : items[i].kind = "entry" /\ items[i].key = key}

\* the keys that occur on the wire
KeysOnWire(items) == {items[i].key : i \in {j \in 1..Len(items) : items[j].kind = "entry"}}

\* the value of the last entry on the wire that has the key
LastValue(items, key) ==
    items[CHOOSE i \in EntriesOf(items, key) : \A j \in EntriesOf(items, key) : j <= i].value

\* the dict that reading the map field of the decoded message returns
DecodedMap == GetAttr(Class("Wide"), res.m, "m").val.pairs

\* C23: decoding a map field collects every entry of that field number on
\* the wire, also when fields of other numbers come between the entries;
\* for a key that occurs more than once the map holds the value of its last
\* occurrence, and the decoded map has exactly the keys on the wire.
MapCollectsEntries ==
    res.op = "from_bytes" =>
        /\ res.err = ""
        /\ Range(DecodedMap) =
               {<<key, LastValue(wire.items, key)>> : key \in KeysOnWire(wire.items)}
        /\ Len(DecodedMap) = Cardinality(KeysOnWire(wire.items))

\* a key twice with different values, a field of another number between
\* the two entries, and the message decoded
MapCollectsEntriesWitness ==
    /\ res.op = "from_bytes"
    /\ res.err = ""
    /\ \E i, j, k \in 1..Len(wire.items) :
           /\ i < j /\ j < k
           /\ wire.items[i].kind = "entry" /\ wire.items[k].kind = "entry"
           /\ wire.items[j].kind = "other"
           /\ wire.items[i].key = wire.items[k].key
           /\ wire.items[i].value # wire.items[k].value
    /\ Len(DecodedMap) = 1

(***************************************************************************)
(* What to_bytes and == leave of the instances they read (Message.         *)
(* to_stream, Message.__eq__ and the getters of the class attributes).     *)
(* msg is the instance, cin the instance it is compared with (another      *)
(* one built from the same keywords, or from none); lastop                 *)
(* keeps what has_field, is_empty, to_dict and which_one_of returned       *)
(* before the call.                                                        *)
(***************************************************************************)
\* the classes of the instances: repeated fields, a map, one-of groups
PureTypes == {"Packed", "Wide", "OneOfMessage"}

\* Message.is_empty
is_empty(m) == DOMAIN m.data = {}

\* Message.to_dict and Message._to_dict
RECURSIVE to_dict(_)
to_dict(m) ==
    [name \in DOMAIN m.data |->
        IF m.data[name].k = "msg" THEN to_dict(m.data[name])
        ELSE IF m.data[name].k = "list"
        THEN PyList([i \in 1..Len(m.data[name].items) |->
                        IF m.data[name].items[i].k = "msg"
                        THEN to_dict(m.data[name].items[i])
                        ELSE m.data[name].items[i]])
        ELSE m.data[name]]

\* what the four readers return for an instance
Observed(m) ==
    [has_field |-> {name \in FieldNames(Class(m.type)) : has_field(m, name)},
     is_empty |-> is_empty(m),
     to_dict |-> to_dict(m),
     which_one_of |-> [g \in {Class(m.type).one_ofs[i].name :
                                 i \in 1..Len(Class(m.type).one_ofs)} |-> which_one_of(m, g)]]

\* all(getattr(self, field) == getattr(other, field) ...) from field i on:
\* the result, and the two instances after the getters have run; all()
\* reads no field behind the first that differs
RECURSIVE EqReads(_, _, _, _)
EqReads(cls, a, b, i) ==
    IF i > Len(cls.fields) THEN [val |-> "T", a |-> a, b |-> b]
    ELSE With(GetAttr(cls, a, cls.fields[i].name), LAMBDA ga :
         With(GetAttr(cls, b, cls.fields[i].name), LAMBDA gb :
         With(PyEq(ga.val, gb.val), LAMBDA e :
             IF e # "T" THEN [val |-> e, a |-> ga.m, b |-> gb.m]
             ELSE EqReads(cls, ga.m, gb.m, i + 1))))

\* Message.__eq__ on two instances
EqCall(a, b) ==
    IF a.type # b.type THEN [val |-> "E", a |-> a, b |-> b]
    ELSE EqReads(Class(a.type), a, b, 1)

\* msg.to_bytes()
PureToBytes ==
    /\ lastop' = [op |-> "to_bytes", before |-> Observed(msg), other |-> Observed(cin)]
    /\ res' = Written(msg.type, DOMAIN msg.data, to_stream(Class(msg.type), msg))
    /\ msg' = res'.m
    /\ UNCHANGED <<writes, wire, cin, cout>>

\* msg == cin
PureEq ==
    /\ lastop' = [op |-> "eq", before |-> Observed(msg), other |-> Observed(cin)]
    /\ res' = [op |-> "eq", r |-> EqCall(msg, cin)]
    /\ msg' = res'.r.a
    /\ cin' = res'.r.b
    /\ cout' = Compared("eq", res'.r.val)
    /\ UNCHANGED <<writes, wire>>

\* msg.name = value
PureSet(name, value) ==
    /\ writes < MaxWrites
    /\ writes' = writes + 1
    /\ lastop' = WriteDone(name, DOMAIN msg.data, SetAttr(Class(msg.type), msg, name, value))
    /\ msg' = lastop'.m
    /\ UNCHANGED <<wire, res, cin, cout>>

PureInit ==
    /\ \E type \in PureTypes : \E kwargs \in Kwargs(Class(type)) :
           /\ New(Class(type), kwargs).err = ""
           /\ msg = New(Class(type), kwargs).m
           /\ cin \in {New(Class(type), kwargs).m, New(Class(type), <<>>).m}
    /\ writes = 0
    /\ lastop = Idle
    /\ wire = Idle
    /\ res = Idle
    /\ cout = NoCall

PureNext ==
    \/ PureToBytes
    \/ PureEq
    \/ \E name \in FieldNames(Class(msg.type)) :
          \E value \in Inputs(FieldByName(Class(msg.type), name)) : PureSet(name, value)

SpecPure == PureInit /\ [][PureNext]_vars

\* C24: to_bytes and == are pure with respect to the instance: has_field(f)
\* for every declared field f, is_empty(), to_dict() and which_one_of(g)
\* return the same after the call as before it, also for repeated and map
\* fields that were never set.
ReadsArePure ==
    lastop.op \in {"to_bytes", "eq"} =>
        /\ Observed(msg) = lastop.before
        /\ Observed(cin) = lastop.other

(***************************************************************************)
(* Enum fields whose variants span the signed 32-bit range (EnumField of   *)
(* protox/fields.py): a message with a singular, a repeated and a packed   *)
(* repeated field of such an enum is built, written and read back.         *)
(***************************************************************************)
\* Levels.from_bytes(data), data being what to_bytes returned
LevelFromBytes == FromBytes("Levels")

LevelInit ==
    /\ \E kwargs \in Kwargs(Class("Levels")) :
          /\ New(Class("Levels"), kwargs).err = ""
          /\ msg = New(Class("Levels"), kwargs).m
          /\ lastop = [op |-> "new", kwargs |-> kwargs]
    /\ writes = 0
    /\ wire = Idle
    /\ res = Idle
    /\ cin = Zero
    /\ cout = NoCall

LevelNext ==
    \/ \E name \in FieldNames(Class("Levels")) :
          \E value \in Inputs(FieldByName(Class("Levels"), name)) : SetField(name, value)
    \/ ToStream
    \/ LevelFromBytes

SpecEnum == LevelInit /\ [][LevelNext]_vars

\* C25: for every enum field whose variants all lie in the signed 32-bit
\* range, negative variants included, encoding any declared variant
\* terminates, and decoding the result yields the same variant.
EnumRoundTrip ==
    /\ wire.op = "to_stream" => wire.err = ""
    /\ res.op = "from_bytes" => res.err = "" /\ SameFields(Class("Levels"), res.m, wire.m)

(***************************************************************************)
(* Struct of protox/well_known_types/struct.py: a message that is used as  *)
(* a dict of JSON-like values.  struct[k] = v stores Value.from_python(v)  *)
(* in the map field _fields and struct[k] returns Value.to_python of what  *)
(* is stored.  A float is written by its double (1.5 is PyFloat(3)); msg   *)
(* is the Struct, lastop the last statement.                               *)
(***************************************************************************)
\* the float twice / 2
PyFloat(twice) == [k |-> "float", twice |-> twice]

\* NullValue.NULL_VALUE
NULL_VALUE == I(0)

\* Value(**{kind: value}): the member of the one-of group "kind" is stored
ValueOf(kind, value) == PyMsg("Value", kind :> value, "kind" :> kind)

\* Struct() whose _fields holds the pairs
StructOf(pairs) == PyMsg("Struct", "_fields" :> PyDict(pairs), Empty)

\* self._fields: MapGetter stores an empty dict on the first read
StructFields(self) == IF "_fields" \in DOMAIN self.data THEN self.data["_fields"].pairs ELSE <<>>

RECURSIVE from_python(_)
\* Struct(**kwargs): self[key] = value for every keyword
StructFromPairs(pairs) ==
    StructOf([i \in 1..Len(pairs) |-> <<pairs[i][1], from_python(pairs[i][2])>>])

\* Value.from_python: bool is an int for isinstance, so the branch of
\* bool_value is never taken
from_python(value) ==
    IF value = None THEN ValueOf("null_value", NULL_VALUE)
    ELSE IF value.k \in {"int", "float", "bool"} THEN ValueOf("number_value", value)
    ELSE IF value.k = "str" THEN ValueOf("string_value", value)
    ELSE IF value.k = "dict" THEN ValueOf("struct_value", StructFromPairs(value.pairs))
    ELSE ValueOf("list_value",
                 PyMsg("ListValue",
                       "values" :> PyList([i \in 1..Len(value.items) |->
                                              from_python(value.items[i])]),
                       Empty))

\* py_value == NullValue.NULL_VALUE: "T", "F", or "E" when Message.__eq__
\* raises ValueError; Struct.__eq__ answers False for what is no Struct
EqNull(py_value) ==
    IF py_value.k = "msg" THEN (IF py_value.type = "Struct" THEN "F" ELSE "E")
    ELSE IF py_value.k = "int" THEN (IF py_value = Zero THEN "T" ELSE "F")
    ELSE IF py_value.k = "bool" THEN (IF py_value.v THEN "F" ELSE "T")
    ELSE IF py_value.k = "float" THEN (IF py_value.twice = 0 THEN "T" ELSE "F")
    ELSE "F"

\* what to_python returns, or the exception that leaves it
Py(val) == [err |-> "", val |-> val]

PyRaise(err) == [err |-> err, val |-> None]

\* the first exception of the results, or ""
FirstErr(rs) ==
    IF \A i \in 1..Len(rs) : rs[i].err = "" THEN ""
    ELSE rs[CHOOSE i \in 1..Len(rs) : rs[i].err # "" /\ \A j \in 1..(i - 1) : rs[j].err = ""].err

RECURSIVE to_python(_)
\* ListValue.to_python and Struct.to_python
AllToPython(values, wrap(_)) ==
    With([i \in 1..Len(values) |-> to_python(values[i])], LAMBDA rs :
        IF FirstErr(rs) # "" THEN PyRaise(FirstErr(rs))
        ELSE Py(wrap([i \in 1..Len(rs) |-> rs[i].val])))

\* Value.to_python
to_python(self) ==
    IF "kind" \notin DOMAIN self.which THEN Py(None)
    ELSE With(self.data[self.which["kind"]], LAMBDA py_value :
        IF EqNull(py_value) = "E" THEN PyRaise("ValueError")
        ELSE IF EqNull(py_value) = "T" THEN Py(None)
        ELSE IF py_value.k = "msg" /\ py_value.type = "ListValue"
        THEN AllToPython(py_value.data["values"].items, PyList)
        ELSE IF py_value.k = "msg"
        THEN With(StructFields(py_value), LAMBDA pairs :
                 With(AllToPython([i \in 1..Len(pairs) |-> pairs[i][2]], LAMBDA vals : vals),
                      LAMBDA r : IF r.err # "" THEN r
                                 ELSE Py(PyDict([i \in 1..Len(pairs) |->
                                                    <<pairs[i][1], r.val[i]>>]))))
        ELSE IF py_value.k = "float" /\ py_value.twice % 2 = 0
        THEN Py(I(py_value.twice \div 2))
        ELSE Py(py_value))

\* Struct.__setitem__
setitem(self, key, value) ==
    [self EXCEPT !.data = Put(@, "_fields", PyDict(DictSet(StructFields(self), key,
                                                           from_python(value))))]

\* Struct.__getitem__
getitem(self, key) ==
    IF PairIndex(StructFields(self), key, 1) = 0 THEN PyRaise("KeyError")
    ELSE to_python(StructFields(self)[PairIndex(StructFields(self), key, 1)][2])

\* Struct.__contains__
contains(self, item) == PairIndex(StructFields(self), item, 1) # 0

\* Struct.__delitem__
delitem(self, key) ==
    [self EXCEPT !.data = Put(@, "_fields",
        PyDict(SelectSeq(StructFields(self), LAMBDA p : p[1] # key)))]

MaxStruct == 2

StructKeys == {PyStr(<<107>>), PyStr(<<108>>)}

\* None, bool, int, float and str
JsonScalars ==
    {None, PyBool(TRUE), PyBool(FALSE), I(0), I(1), I(-1), PyFloat(0), PyFloat(3), PyFloat(4),
     PyStr(<<>>), PyStr(<<97>>)}

\* lists and dicts of them
JsonValues ==
    JsonScalars
        \cup {PyList(<<>>), PyList(<<I(1)>>), PyList(<<I(1), PyStr(<<97>>)>>)}
        \cup {PyDict(<<>>), PyDict(<< <<PyStr(<<107>>), I(1)>> >>),
              PyDict(<< <<PyStr(<<107>>), I(0)>> >>),
              PyDict(<< <<PyStr(<<107>>), PyList(<<>>)>> >>)}

\* struct[key] = value
SetItem(key, value) ==
    /\ Len(StructFields(msg)) < MaxStruct \/ contains(msg, key)
    /\ msg' = setitem(msg, key, value)
    /\ lastop' = [op |-> "setitem", key |-> key, value |-> value]
    /\ UNCHANGED <<writes, wire, res, cin, cout>>

\* del struct[key]
DelItem(key) ==
    /\ contains(msg, key)
    /\ msg' = delitem(msg, key)
    /\ lastop' = [op |-> "delitem", key |-> key]
    /\ UNCHANGED <<writes, wire, res, cin, cout>>

\* Struct()
StructInit ==
    /\ msg = PyMsg("Struct", Empty, Empty)
    /\ writes = 0
    /\ lastop = Idle
    /\ wire = Idle
    /\ res = Idle
    /\ cin = Zero
    /\ cout = NoCall

StructNext ==
    \/ \E key \in StructKeys : \E value \in JsonValues : SetItem(key, value)
    \/ \E key \in StructKeys : DelItem(key)

SpecStruct == StructInit /\ [][StructNext]_vars

\* the kind of a JSON-like value
JsonKind(v) ==
    IF v = None THEN "null"
    ELSE IF v.k \in {"int", "float"} THEN "number"
    ELSE v.k

\* twice the number
Twice(v) == IF v.k = "float" THEN v.twice ELSE IF v.neg THEN 0 - 2 * ToNat(Neg(v)) ELSE 2 * ToNat(v)

\* a == b for two JSON-like values of one kind each, item by item
RECURSIVE JsonEq(_, _)
JsonEq(a, b) ==
    IF JsonKind(a) # JsonKind(b) THEN FALSE
    ELSE IF JsonKind(a) = "number" THEN Twice(a) = Twice(b)
    ELSE IF JsonKind(a) = "list"
    THEN Len(a.items) = Len(b.items) /\ \A i \in 1..Len(a.items) : JsonEq(a.items[i], b.items[i])
    ELSE IF JsonKind(a) = "dict"
    THEN /\ {p[1] : p \in Range(a.pairs)} = {p[1] : p \in Range(b.pairs)}
         /\ \A p \in Range(a.pairs) : \A q \in Range(b.pairs) : p[1] = q[1] => JsonEq(p[2], q[2])
    ELSE a = b

\* C26: after struct[k] = v for a JSON-like value v (None, a bool, a number
\* including 0, a string, a list, a dict), struct[k] returns a value equal
\* to v and of the same kind, and k in struct is true.
StructKeepsValue ==
    lastop.op = "setitem" =>
        /\ contains(msg, lastop.key)
        /\ getitem(msg, lastop.key).err = ""
        /\ JsonEq(getitem(msg, lastop.key).val, lastop.value)

(***************************************************************************)
(* Several members of one one-of group on the wire (the loop of            *)
(* Message.from_stream and Message.__init__).  An encoder that is not      *)
(* to_bytes may write a member after another member of its group, or the   *)
(* same member twice.  wire holds the fields written, res what             *)
(* OneOfMessage.from_bytes made of them.                                   *)
(***************************************************************************)
\* the members written: three of one_of_three and one of second_one_of
MemberItems ==
    [name : {"x", "y", "z"}, value : {I(1), I(2)}] \cup {[name |-> "c", value |-> PyStr(<<97>>)]}

\* an encoder writes one more member
MemberAppend(item) ==
    /\ wire.op = "members"
    /\ res.op = "none"
    /\ Len(wire.items) < MaxWireItems
    /\ wire' = [wire EXCEPT
                   !.items = Append(@, item),
                   !.bytes = @ \o Encode(FieldByName(Class("OneOfMessage"), item.name),
                                         item.value).bytes]
    /\ UNCHANGED <<msg, writes, lastop, res, cin, cout>>

\* OneOfMessage.from_bytes(data)
MemberFromBytes ==
    /\ wire.op = "members"
    /\ res.op = "none"
    /\ res' = Got("OneOfMessage", from_stream(Class("OneOfMessage"), wire.bytes, TRUE))
    /\ lastop' = [op |-> "from_bytes"]
    /\ UNCHANGED <<msg, writes, wire, cin, cout>>

MemberInit ==
    /\ msg = None
    /\ writes = 0
    /\ lastop = Idle
    /\ wire = [op |-> "members", items |-> <<>>, bytes |-> <<>>]
    /\ res = Idle
    /\ cin = Zero
    /\ cout = NoCall

MemberNext ==
    \/ \E item \in MemberItems : MemberAppend(item)
    \/ MemberFromBytes

SpecOneOfWire == MemberInit /\ [][MemberNext]_vars

\* the positions on the wire of the members of the group
MembersOf(items, group) == {i \in 1..Len(items) : items[i].name \in Range(group.fields)}

\* the member of the group that occurs last on the wire
LastMember(items, group) ==
    items[CHOOSE i \in MembersOf(items, group) : \A j \in MembersOf(items, group) : j <= i]

\* C27: when the wire data holds several members of one one-of group, the
\* winner after from_bytes is the member that occurs last on the wire,
\* whatever the order of first appearance and of declaration.
LastMemberWins ==
    res.op = "from_bytes" =>
        /\ res.err = ""
        /\ \A group \in Range(Class("OneOfMessage").one_ofs) :
               MembersOf(wire.items, group) # {} =>
                   /\ which_one_of(res.m, group.name) = LastMember(wire.items, group).name
                   /\ GetAttr(Class("OneOfMessage"), res.m,
                              LastMember(wire.items, group).name).val
                          = LastMember(wire.items, group).value

(***************************************************************************)
(* from_bytes step by step: one action per iteration of the loop of        *)
(* Message.from_stream and one per iteration of the loop of                *)
(* PackedRepeatedStrategy.decode.  wire holds the stream (buf, and pos the *)
(* next byte to read), message_fields (mf), the block of a packed field    *)
(* while its items are read, and at: "loop", "block", "end" behind the     *)
(* break, "returned" or "raised".  lastop holds the positions before and   *)
(* behind the last iteration, writes the iterations of the two loops.      *)
(***************************************************************************)
MaxStream == 4

\* headers of the fields 1 and 3 of Packed (a packed Int32 and a packed
\* String), of an unknown varint field, and bytes for lengths and values
StreamBytes == {0, 1, 2, 10, 26, 32, 128}

\* each item of the block read from a fresh stream over the data: a mutant
PackedElementPeek(f, data, pos) ==
    With(DecodeValue(ElemField(f), data, 1, TRUE),
         LAMBDA r : IF r.err # "" THEN r ELSE Ok(r.val, pos))

\* self._field.decode(stream) in the loop of PackedRepeatedStrategy.decode
PackedElement(f, data, pos) == DecodeValue(ElemField(f), data, pos, TRUE)

\* the stream after an iteration
Stepped(op, from, next) == [op |-> op, from |-> from, to |-> next.pos, at |-> next.at]

\* the iteration raised
Raising(stream, err, pos) == [stream EXCEPT !.at = "raised", !.err = err, !.pos = pos]

\* the iteration read a field and stored its value
Storing(stream, f, value, pos) ==
    [stream EXCEPT !.at = "loop", !.pos = pos, !.mf = StoreField(stream.mf, f, value), !.block = None]

\* the body of the loop of from_stream behind the header h of the field f
IterateKnown(stream, h, f) ==
    IF WireTypeMismatch(f, h.val.wire_type) THEN Raising(stream, "MessageDecodeError", h.pos)
    ELSE IF f.kind = "Repeated" /\ f.packed
    THEN With(decode_bytes(stream.buf, h.pos), LAMBDA b :
             IF b.err # "" THEN Raising(stream, b.err, b.pos)
             ELSE IF b.val = <<>> THEN Storing(stream, f, PyList(<<>>), b.pos)
             ELSE [stream EXCEPT !.at = "block", !.pos = b.pos,
                            !.block = [f |-> f, data |-> b.val, pos |-> 1, items |-> <<>>]])
    ELSE With(DecodeField(f, stream.buf, h.pos, TRUE), LAMBDA r :
             IF r.err # "" THEN Raising(stream, r.err, r.pos)
             ELSE Storing(stream, f, r.val, r.pos))

\* one iteration of the loop of from_stream
Iterated(stream) ==
    With(decode_header(stream.buf, stream.pos), LAMBDA h :
        IF h.err # "" THEN [stream EXCEPT !.at = "end", !.pos = h.pos]
        ELSE IF HasNumber(Class(stream.cls), h.val.number)
        THEN IterateKnown(stream, h, FieldByNumber(Class(stream.cls), h.val.number))
        ELSE With(SkipField(h.val.wire_type, stream.buf, h.pos), LAMBDA r :
                 IF r.err # "" THEN Raising(stream, r.err, r.pos)
                 ELSE [stream EXCEPT !.pos = r.pos]))

\* one iteration of the loop of PackedRepeatedStrategy.decode, and the
\* return of the items when the block is read
ElementRead(stream) ==
    With(PackedElement(stream.block.f, stream.block.data, stream.block.pos), LAMBDA r :
        IF r.err # "" THEN [Raising(stream, r.err, stream.pos) EXCEPT !.block.pos = r.pos]
        ELSE IF r.pos > Len(stream.block.data)
        THEN Storing(stream, stream.block.f, PyList(Append(stream.block.items, r.val)), stream.pos)
        ELSE [stream EXCEPT !.block.pos = r.pos, !.block.items = Append(@, r.val)])

\* what the statement behind the loop makes of message_fields
Finished(stream) ==
    Got(stream.cls,
        IF MissingRequired(Class(stream.cls), stream.mf)
        THEN DecodeFailed("MessageDecodeError", stream.mf, "strict")
        ELSE Build(Class(stream.cls), stream.mf))

Iterate ==
    /\ wire.at = "loop"
    /\ wire' = Iterated(wire)
    /\ lastop' = Stepped("iterate", wire.pos, Iterated(wire))
    /\ writes' = writes + 1
    /\ UNCHANGED <<msg, res, cin, cout>>

Element ==
    /\ wire.at = "block"
    /\ wire' = ElementRead(wire)
    /\ lastop' = [op |-> "element", from |-> wire.block.pos,
                  to |-> IF ElementRead(wire).block = None THEN Len(wire.block.data) + 1
                         ELSE ElementRead(wire).block.pos,
                  at |-> ElementRead(wire).at]
    /\ writes' = writes + 1
    /\ UNCHANGED <<msg, res, cin, cout>>

\* behind the loop: the check of the required fields and cls(**message_fields)
Finish ==
    /\ wire.at = "end"
    /\ res' = Finished(wire)
    /\ wire' = [wire EXCEPT !.at = IF Finished(wire).err # "" THEN "raised" ELSE "returned",
                            !.err = Finished(wire).err]
    /\ lastop' = [op |-> "finish"]
    /\ UNCHANGED <<msg, writes, cin, cout>>

LoopInit ==
    /\ \E buf \in SeqsUpTo(StreamBytes, MaxStream) :
           wire = [op |-> "stream", cls |-> "Packed", buf |-> buf, pos |-> 1, mf |-> <<>>,
                   block |-> None, at |-> "loop", err |-> ""]
    /\ msg = None
    /\ writes = 0
    /\ lastop = Idle
    /\ res = Idle
    /\ cin = Zero
    /\ cout = NoCall

LoopNext == Iterate \/ Element \/ Finish

SpecLoop == LoopInit /\ [][LoopNext]_vars

\* a statement of from_bytes can run: it has neither returned nor raised
Reading == wire.at \in {"loop", "block", "end"}

\* the interpreter runs the next statement of from_bytes: weak fairness of
\* LoopNext, with Reading written for ENABLED <<LoopNext>>_vars
SpecLoopFair == SpecLoop /\ ([]<>~Reading \/ []<><<LoopNext>>_vars)

\* the last iteration read at least one byte, ended the loop or raised
Consumed ==
    lastop.op \in {"iterate", "element"} =>
        lastop.to > lastop.from \/ lastop.at \in {"end", "raised"}

\* the iterations so far are no more than the bytes of the input and the one
\* that finds its end
Bounded == writes <= Len(wire.buf) + 1

\* C28: from_bytes terminates on every finite byte string: each iteration of
\* its loop consumes at least one byte of the stream, ends the loop or
\* raises, and the loop over a packed block consumes at least one byte per
\* element or raises, so that the number of iterations is bounded by the
\* length of the input.
FromBytesTerminates == [](Consumed /\ Bounded) /\ <>~Reading

\* a packed block of two elements was read item by item and from_bytes returned
FromBytesTerminatesWitness ==
    /\ wire.at = "returned"
    /\ \E i \in 1..Len(wire.mf) : wire.mf[i][2].k = "list" /\ Len(wire.mf[i][2].items) = 2

(***************************************************************************)
(* The exceptions of from_bytes.  The stream is put together from pieces   *)
(* that a sender may write: headers of known and unknown fields with every *)
(* wire type, varints that fit the field, exceed its width or run on       *)
(* behind the tenth byte, and a string that is not UTF-8.                  *)
(***************************************************************************)
\* a varint of eleven bytes: more than 64 bits
LongVarint == [i \in 1..10 |-> 128] \o <<1>>

\* the header of field number with the wire type
HeaderOf(number, wire_type) == encode_varint(I(number * 8 + wire_type))

\* field 1 is x (Int32), field 4 is c (String) and field 6 is unknown
Pieces ==
    {HeaderOf(1, VARINT), HeaderOf(6, VARINT), encode_varint(I(1)), encode_varint(Pow2(31)),
     LongVarint, HeaderOf(6, 3), HeaderOf(6, 4), HeaderOf(6, 6), HeaderOf(6, 7),
     HeaderOf(1, 6), HeaderOf(4, LENGTH) \o <<1, 255>>}

\* a sender writes one more piece
PieceAppend(piece) ==
    /\ wire.op = "pieces"
    /\ res.op = "none"
    /\ Len(wire.pieces) < MaxWireItems
    /\ wire' = [wire EXCEPT !.pieces = Append(@, piece), !.bytes = @ \o piece]
    /\ UNCHANGED <<msg, writes, lastop, res, cin, cout>>

\* OneOfMessage.from_bytes(data)
PieceFromBytes ==
    /\ wire.op = "pieces"
    /\ res.op = "none"
    /\ res' = Got("OneOfMessage", from_stream(Class("OneOfMessage"), wire.bytes, TRUE))
    /\ lastop' = [op |-> "from_bytes"]
    /\ UNCHANGED <<msg, writes, wire, cin, cout>>

PieceInit ==
    /\ msg = None
    /\ writes = 0
    /\ lastop = Idle
    /\ wire = [op |-> "pieces", pieces |-> <<>>, bytes |-> <<>>]
    /\ res = Idle
    /\ cin = Zero
    /\ cout = NoCall

PieceNext ==
    \/ \E piece \in Pieces : PieceAppend(piece)
    \/ PieceFromBytes

SpecPieces == PieceInit /\ [][PieceNext]_vars

\* C29: for every byte string, from_bytes returns a message or raises
\* MessageDecodeError or, for the wire types 3 and 4, NotImplementedError;
\* no exception of another kind escapes, in particular not for the wire
\* types 6 and 7, a varint of more than 64 bits, or a decoded integer
\* outside the width of its field.
OnlyDecodeErrors ==
    res.op = "from_bytes" =>
        /\ res.err \in {"", "MessageDecodeError", "NotImplementedError"}
        /\ res.err = "NotImplementedError" =>
               \E piece \in Range(wire.pieces) : piece \in {HeaderOf(6, 3), HeaderOf(6, 4)}

(***************************************************************************)
(* Writes that are rejected: an assignment whose value fails               *)
(* validate_value (the setters of protox/message.py) and extend on the     *)
(* list of a repeated field with an invalid item                           *)
(* (protox/validated_list.py).                                             *)
(***************************************************************************)
\* the classes of the instances: one-of groups, repeated fields, a map and
\* a message field
RejectTypes == {"OneOfMessage", "Packed", "EnumMessage", "Outer"}

RejectInit ==
    /\ \E type \in RejectTypes : \E kwargs \in Kwargs(Class(type)) :
          /\ New(Class(type), kwargs).err = ""
          /\ msg = New(Class(type), kwargs).m
          /\ lastop = [op |-> "new", kwargs |-> kwargs]
    /\ writes = 0
    /\ wire = Idle
    /\ res = Idle
    /\ cin = Zero
    /\ cout = NoCall

RejectNext ==
    \/ \E name \in FieldNames(Class(msg.type)) :
          \E value \in Inputs(FieldByName(Class(msg.type), name)) : SetField(name, value)
    \/ \E f \in ListFields : \E xs \in SeqsUpTo(ItemInputs(ElemField(f)), MaxItems) :
          ListExtend(f, xs)

SpecReject == RejectInit /\ [][RejectNext]_vars

\* the step is a write that raised
RejectedStep == writes' # writes /\ lastop'.err # ""

\* C30: a rejected write leaves the instance unchanged, the value map and
\* the one-of arbitration map alike, so no other member of a one-of group is
\* cleared; and when extend on the list of a repeated field raises for an
\* invalid element, no element of the argument has been added to the list.
RejectedWriteKeeps ==
    [][RejectedStep =>
           IF lastop'.op = "extend"
           THEN GetAttr(Class(msg.type), msg', lastop'.name).val.items
                    = GetAttr(Class(msg.type), msg, lastop'.name).val.items
           ELSE msg' = msg]_vars

\* a write to a member of a one-of group was rejected while another member
\* of the group is stored
RejectedWriteKeepsWitness ==
    /\ lastop.op = "set"
    /\ lastop.err # ""
    /\ InOneOf(Class(msg.type), lastop.name)
    /\ which_one_of(msg, OneOfByFieldName(Class(msg.type), lastop.name).name)
           \notin {"None", lastop.name}
====
